---- MODULE Spec2Model ----
(***************************************************************************)
(* Duplicate detection, accountability reconciliation and the paginated    *)
(* catalog query of opera-audit (src/opera-audit/src/opera_accountability).*)
(*                                                                         *)
(* Strings are sequences of tokens.  A granule identifier such as          *)
(*   OPERA_L3_DSWx-HLS_T10TEM_20260115T180931Z_20260115T235959Z_L8_30_v1.0 *)
(* is <<"OPERA_L3_DSWx-HLS", "T10TEM", "20260115T180931Z",                 *)
(*      "20260115T235959Z", "L8", "30", "v1.0">>: one token per field of   *)
(* the product's pattern.  A file reference of an output's InputGranules   *)
(* is a sequence of path components, "/" tokens, identifier tokens and     *)
(* suffix tokens.                                                          *)
(***************************************************************************)
EXTENDS Integers, Sequences, FiniteSets, TLC

VARIABLES
    \* detect_duplicates
    product,          \* the product argument
    cmr_granules,     \* the cmr_granules argument: records with a GranuleUR
    dd_pc,            \* "idle" | "start" | "loop" | "done" | "raised"
    dd_i,             \* number of granule ids the for loop has consumed
    unique_granules,  \* unique_id tuple -> <<granule_id, creation_ts>>
    all_duplicates,   \* list of duplicate granule ids, in detection order
    by_date,          \* date -> [total, unique, duplicates]
    dd_result,        \* the returned dict (NoResult before the return)
    \* analyze_accountability
    dswx_granules,    \* output records: GranuleUR, InputGranules
    hls_granules,     \* input records: GranuleUR, BeginningDateTime, Platforms
    aa_pc,            \* "idle" | "dswx" | "hls" | "done"
    aa_i,             \* records consumed by the running loop
    hls_to_dswx,      \* input name -> list of output ids
    filtered_hls,     \* ids of the input records kept by the L9 filter
    aa_result,        \* the returned dict (NoResult before the return)
    aa_log,           \* every logger call of the run, in order
    \* query_cmr and the catalog it talks to
    server_pages,     \* the catalog's pages of the queried collection
    qc_pc,            \* "idle" | "first" | "paginate" | "done" | "raised"
    granules,         \* the list query_cmr accumulates
    search_after,     \* the CMR-Search-After token of the last response
    requests_sent,    \* every GET issued: its token header, and whether it was answered
    tries,            \* failed attempts of the page request under way
    last_status,      \* status of the last GET's outcome (NetworkError: none)
    qc_error,         \* the exception query_cmr raised (NoError if none)
    \* audit_dswx_inputs._request
    rq_pc,            \* "idle" | "loop" | "returned" | "raised"
    rq_url,           \* the url argument
    rq_tries,         \* the tries argument
    rq_i,             \* the loop variable i: attempts finished so far
    rq_last,          \* the local `last`
    rq_attempts,      \* outcome of every session.get, in order
    rq_slept,         \* every time.sleep argument, in order
    rq_result,        \* the returned response or the raised error
    \* the duplicates command of the opera-audit CLI
    cli_pc,           \* "idle" | "start" | "exit1" | "query" | "detect" | "no_granules" | "summary" | "error"
    \* audit_dswx_inputs.main
    au_pc,            \* "idle" | "scan" | "done" | "raised"
    au_entries,       \* the granules the search yields, with their UMM
    max_time_span_minutes, \* args.max_time_span_minutes
    au_total,         \* total: granules scanned so far
    failures,         \* the Failure records, in order
    au_exit,          \* the return value of main (NoExit before)
    \* dswx-hls-input-map.main
    lm_pc,            \* "idle" | "dswx" | "hls" | "report" | "done" | "raised"
    lm_dswx,          \* the records of the DSWx-HLS query
    lm_hls_s,         \* the records of the HLS-S query
    lm_hls_l,         \* the records of the HLS-L query
    lm_hls_to_dswx,   \* (HLS granule, date) -> list of DSWx granules
    lm_report,        \* the report (NoReport before it is assembled)
    \* duplicate_check.main
    dc_pc,            \* "idle" | "loop" | "no_data" | "done" | "raised"
    dc_product,       \* args.product
    dc_granule_ids,   \* what get_granule_ids_from_cmr returned
    dc_i,             \* identifiers the loop has consumed
    granule_month_map, \* month -> n_granules, n_duplicates, duplicates
    dc_unique_granules, \* unique ids -> the first identifier seen with them
    final_report,     \* the report (NoReport before it is written)
    \* duplicate_and_accountability_cron.main
    cr_pc,            \* "idle" | "ready"
    plot_length,      \* args.plot_length
    cr_clock,         \* the day the local clock shows
    cr_runs,          \* runs started so far
    cr_s3,            \* plot_data.json at the S3 location (<<>>: no object)
    cr_last,          \* plot_data of the last run that uploaded (run 0: none)
    \* find_granules.find_missing_granules and report_found_granules
    fg_pc,            \* "idle" | "loop" | "done"
    gran_list,        \* the lines of the granule list, with the checks' answers
    fg_i,             \* lines the loop has consumed
    s3_missing_granule,
    s3_found_granule,
    grq_missing_granule,
    grq_found_granule,
    both_missing_granule,
    both_found_granule,
    fg_printed        \* the sections report_found_granules printed

dd_vars == <<product, cmr_granules, dd_pc, dd_i, unique_granules,
             all_duplicates, by_date, dd_result>>
aa_vars == <<dswx_granules, hls_granules, aa_pc, aa_i, hls_to_dswx,
             filtered_hls, aa_result, aa_log>>
qc_vars == <<server_pages, qc_pc, granules, search_after, requests_sent, tries,
             last_status, qc_error>>
rq_vars == <<rq_pc, rq_url, rq_tries, rq_i, rq_last, rq_attempts, rq_slept,
             rq_result>>
cli_vars == <<cli_pc>>
au_vars == <<au_pc, au_entries, max_time_span_minutes, au_total, failures,
             au_exit>>
lm_vars == <<lm_pc, lm_dswx, lm_hls_s, lm_hls_l, lm_hls_to_dswx, lm_report>>
dc_vars == <<dc_pc, dc_product, dc_granule_ids, dc_i, granule_month_map,
             dc_unique_granules, final_report>>
cr_vars == <<cr_pc, plot_length, cr_clock, cr_runs, cr_s3, cr_last>>
fg_vars == <<fg_pc, gran_list, fg_i, s3_missing_granule, s3_found_granule,
             grq_missing_granule, grq_found_granule, both_missing_granule,
             both_found_granule, fg_printed>>
script_vars == <<au_vars, lm_vars, dc_vars, cr_vars, fg_vars>>
vars == <<dd_vars, aa_vars, qc_vars, rq_vars, cli_vars, script_vars>>

NoResult == [none |-> TRUE]

(***************************************************************************)
(* Bounds of the model.                                                    *)
(***************************************************************************)
MaxGranules == 3
MaxOutputs == 2
MaxInputs == 2
MaxPages == 3
PageSize == 1
MaxTries == 2
MaxScanned == 2
MaxPlotLength == 2
MaxRuns == 4
MaxDays == 3
MaxListed == 2

(***************************************************************************)
(* String helpers.                                                         *)
(***************************************************************************)

\* The characters that tell the tokens of one class apart, as codes: Python
\* compares strings character by character, and every token class below is
\* fixed-width.
Chars(tok) ==
    CASE tok = "20260115T180931Z" -> <<1, 5, 1, 8, 0>>
      [] tok = "20260115T183045Z" -> <<1, 5, 1, 8, 3>>
      [] tok = "20260116T180931Z" -> <<1, 6, 1, 8, 0>>
      [] tok = "20260115T235959Z" -> <<1, 5, 2, 3, 5>>
      [] tok = "20260116T003045Z" -> <<1, 6, 0, 0, 3>>
      [] tok = "20260116T120000Z" -> <<1, 6, 1, 2, 0>>
      [] tok = "v1.0" -> <<0>>
      [] tok = "v1.1" -> <<1>>
      [] tok = "T10TEM" -> <<1, 0>>
      [] tok = "T11SKA" -> <<1, 1>>
      [] tok = "L8" -> <<76, 8>>
      [] tok = "L9" -> <<76, 9>>
      [] tok = "L7" -> <<76, 7>>
      [] tok = "S2A" -> <<83, 2>>
      [] tok = "S30" -> <<83>>
      [] tok = "L30" -> <<76>>
      [] tok = "2026001T183821" -> <<2, 6, 0, 0, 1>>
      [] tok = "2025274T183821" -> <<2, 5, 2, 7, 4>>
      [] tok = "T064-135518-IW1" -> <<1>>
      [] tok = "T064-135518-IW2" -> <<2>>
      [] tok = "2014-04-03" -> <<1, 4, 0, 4, 0, 3>>
      [] tok = "2026-01-15" -> <<2, 6, 0, 1, 1, 5>>
      [] tok = "2026-01-16" -> <<2, 6, 0, 1, 1, 6>>
      [] tok = "T056-118754-IW2" -> <<0>>
      [] tok = "T127-271000-IW1" -> <<3>>
      [] tok = "20260127T130031Z" -> <<2, 7, 1, 3, 0, 0, 3, 1>>
      [] tok = "20260127T130056Z" -> <<2, 7, 1, 3, 0, 0, 5, 6>>
      [] tok = "20260127T130531Z" -> <<2, 7, 1, 3, 0, 5, 3, 1>>
      [] tok = "20260127T131031Z" -> <<2, 7, 1, 3, 1, 0, 3, 1>>
      [] tok = "20260127T131032Z" -> <<2, 7, 1, 3, 1, 0, 3, 2>>
      [] tok = "v1.0.h5" -> <<0, 46>>
      [] tok = "HH.tif" -> <<72, 72>>
      [] tok = "HV.tif" -> <<72, 86>>
      [] tok = "OPERA" -> <<79>>
      [] tok = "unknown.tif" -> <<117>>
      [] tok = "20250408T163512Z" -> <<0, 4, 0, 8>>
      [] tok = "20250422T090000Z" -> <<0, 4, 2, 2>>
      [] tok = "20250512T101500Z" -> <<0, 5, 1, 2>>
      [] tok = "20250620T080000Z" -> <<0, 6, 2, 0>>
      [] tok = "2025-04" -> <<2, 5, 0, 4>>
      [] tok = "2025-05" -> <<2, 5, 0, 5>>
      [] tok = "2025-06" -> <<2, 5, 0, 6>>
      [] tok = "2026-01" -> <<2, 6, 0, 1>>
      [] OTHER -> <<0>>

\* Lexicographic order of two code sequences: a proper prefix is smaller.
RECURSIVE LexLess(_, _)
LexLess(s, t) ==
    IF t = <<>> THEN FALSE
    ELSE IF s = <<>> THEN TRUE
    ELSE IF Head(s) # Head(t) THEN Head(s) < Head(t)
    ELSE LexLess(Tail(s), Tail(t))

\* Python's a > b on two field values (tokens); '' is the empty string.
StrGreater(a, b) ==
    LET ca == IF a = "" THEN <<>> ELSE Chars(a)
        cb == IF b = "" THEN <<>> ELSE Chars(b)
    IN  LexLess(cb, ca)

\* Python's a < b on two identifiers (token sequences).
RECURSIVE IdLess(_, _)
IdLess(a, b) ==
    IF b = <<>> THEN FALSE
    ELSE IF a = <<>> THEN TRUE
    ELSE IF Head(a) # Head(b) THEN LexLess(Chars(Head(a)), Chars(Head(b)))
    ELSE IdLess(Tail(a), Tail(b))

\* Python's sorted() on a list of identifiers.
Sorted(list) == SortSeq(list, IdLess)

\* The elements of a set of identifiers as a sorted list.
RECURSIVE SortedList(_)
SortedList(S) ==
    IF S = {} THEN <<>>
    ELSE LET m == CHOOSE x \in S : \A y \in S \ {x} : IdLess(x, y)
         IN  <<m>> \o SortedList(S \ {m})

Range(s) == {s[k] : k \in DOMAIN s}

(***************************************************************************)
(* Product configuration (the PRODUCTS table; opera-audit loads the same   *)
(* entries from its configuration file).  A pattern is the sequence of its *)
(* fields: the named group a field is captured in ("" for none) and the    *)
(* tokens the field's sub-pattern accepts.                                 *)
(***************************************************************************)
TileTokens == {"T10TEM", "T11SKA"}                      \* T[^\W_]{5}
TimestampTokens == {"20260115T180931Z", "20260115T183045Z", "20260116T180931Z",
                    "20260115T235959Z", "20260116T003045Z", "20260116T120000Z"}
                                                        \* \d{8}T\d{6}Z
VersionTokens == {"v1.0", "v1.1"}                       \* v\d+[.]\d+
BurstTokens == {"T064-135518-IW1", "T064-135518-IW2"}   \* \w{4}-\w{6}-\w{3}
DateTokens == {"20140403"}                              \* \d{8}

PRODUCTS ==
    [DSWX_HLS |->
        [PATTERN |-> << [group |-> "", tokens |-> {"OPERA_L3_DSWx-HLS"}],
                        [group |-> "tile_id", tokens |-> TileTokens],
                        [group |-> "acquisition_ts", tokens |-> TimestampTokens],
                        [group |-> "creation_ts", tokens |-> TimestampTokens],
                        [group |-> "sensor",
                         tokens |-> {"S2A", "S2B", "S2C", "S2D", "L8", "L9"}],
                        [group |-> "", tokens |-> {"30"}],
                        [group |-> "", tokens |-> VersionTokens] >>,
         UNIQUE_GROUPS |-> <<"tile_id", "acquisition_ts", "sensor">>,
         AGG_TS_GROUP |-> "acquisition_ts",
         AGG_TS_FORMAT |-> "%Y%m%dT%H%M%SZ",
         CREATE_TS_GROUP |-> "creation_ts"],
     CSLC_S1_STATIC |->
        [PATTERN |-> << [group |-> "", tokens |-> {"OPERA_L2_CSLC-S1-STATIC"}],
                        [group |-> "burst_id", tokens |-> BurstTokens],
                        [group |-> "validity_ts", tokens |-> DateTokens],
                        [group |-> "sensor",
                         tokens |-> {"S1A", "S1B", "S1C", "S1D"}],
                        [group |-> "", tokens |-> VersionTokens] >>,
         UNIQUE_GROUPS |-> <<"burst_id", "validity_ts", "sensor">>,
         AGG_TS_GROUP |-> "validity_ts",
         AGG_TS_FORMAT |-> "%Y%m%d",
         CREATE_TS_GROUP |-> ""]]

ProductNames == DOMAIN PRODUCTS

\* The product names a caller may pass: the registered ones and one that is
\* not in the configuration.
RequestedProducts == ProductNames \cup {"NOT_A_PRODUCT"}

KeyError == [raised |-> "KeyError"]

\* product_config = CONFIG['products'][product]
ProductConfig(prod) ==
    IF prod \in DOMAIN PRODUCTS THEN PRODUCTS[prod] ELSE KeyError

(***************************************************************************)
(* detect_duplicates                                                       *)
(***************************************************************************)

NoMatch == [nomatch |-> TRUE]

\* pattern.match(granule_id): the pattern is matched at the start of the
\* identifier and need not reach its end; the result is the groupdict.
PatternMatch(pattern, granule_id) ==
    IF /\ Len(granule_id) >= Len(pattern)
       /\ \A k \in 1..Len(pattern) : granule_id[k] \in pattern[k].tokens
    THEN LET named == {k \in 1..Len(pattern) : pattern[k].group # ""}
         IN  [g \in {pattern[k].group : k \in named} |->
                 granule_id[CHOOSE k \in named : pattern[k].group = g]]
    ELSE NoMatch

\* tuple(fields[f] for f in unique_fields)
UniqueIdWithCreation(fields, unique_fields) ==
    [k \in 1..Len(unique_fields) + 1 |->
        IF k <= Len(unique_fields) THEN fields[unique_fields[k]]
        ELSE IF "creation_ts" \in DOMAIN fields THEN fields["creation_ts"] ELSE ""]

UniqueId(fields, unique_fields) ==
    [k \in 1..Len(unique_fields) |-> fields[unique_fields[k]]]

\* datetime.strptime(value, agg_format).date().isoformat(); the identifiers
\* of the model carry valid calendar dates, so strptime does not raise.
AggDate(value, agg_format) ==
    IF agg_format = "%Y%m%dT%H%M%SZ"
    THEN CASE value \in {"20260115T180931Z", "20260115T183045Z",
                         "20260115T235959Z"} -> "2026-01-15"
           [] value \in {"20260116T180931Z", "20260116T003045Z",
                         "20260116T120000Z"} -> "2026-01-16"
    ELSE CASE value = "20140403" -> "2014-04-03"

BumpFromZero(bd, agg_date, counter) ==
    LET zero == [total |-> 0, unique |-> 0, duplicates |-> 0]
        new == [zero EXCEPT ![counter] = 1]
    IN  [d \in DOMAIN bd \cup {agg_date} |-> IF d = agg_date THEN new ELSE bd[d]]

\* by_date[agg_date][counter] += 1 on a defaultdict of zeroed counters
Bump(bd, agg_date, counter) ==
    LET old == IF agg_date \in DOMAIN bd THEN bd[agg_date]
               ELSE [total |-> 0, unique |-> 0, duplicates |-> 0]
        new == [old EXCEPT ![counter] = @ + 1]
    IN  [d \in DOMAIN bd \cup {agg_date} |-> IF d = agg_date THEN new ELSE bd[d]]

DictSetFresh(dict, key, value) == [k \in {key} |-> value]

\* unique_granules[unique_id] = value
DictSet(dict, key, value) ==
    [k \in DOMAIN dict \cup {key} |-> IF k = key THEN value ELSE dict[k]]

CurrentIsOlder(current_creation_ts, existing_creation_ts) ==
    StrGreater(existing_creation_ts, current_creation_ts)

ExistingIsNewer(current_creation_ts, existing_creation_ts) ==
    StrGreater(existing_creation_ts, existing_creation_ts)

CurrentIsNotOlder(current_creation_ts, existing_creation_ts) ==
    ~StrGreater(existing_creation_ts, current_creation_ts)

\* current_creation_ts > existing_creation_ts
CurrentIsNewer(current_creation_ts, existing_creation_ts) ==
    StrGreater(current_creation_ts, existing_creation_ts)

OnNoMatchRecorded(st, granule_id) ==
    [st EXCEPT !.all_duplicates = Append(@, granule_id)]

\* if not match: logger.warning(...); continue
OnNoMatch(st, granule_id) == st

LastSeenWins(st, unique_id, granule_id, bd) ==
    [unique_granules |-> DictSet(st.unique_granules, unique_id, <<granule_id, "">>),
     all_duplicates |-> Append(st.all_duplicates, st.unique_granules[unique_id][1]),
     by_date |-> bd]

\* else: (no creation field) all_duplicates.append(granule_id);
\* by_date[agg_date]['duplicates'] += 1 was applied to bd
FirstSeenWins(st, unique_id, granule_id, bd) ==
    [st EXCEPT !.all_duplicates = Append(@, granule_id), !.by_date = bd]

\* One iteration of the for loop over granule_ids, on the loop's state
\* st = [unique_granules, all_duplicates, by_date].
LoopBody(st, prod, granule_id) ==
    LET product_config == ProductConfig(prod)
        creation_field == product_config.CREATE_TS_GROUP
        fields == PatternMatch(product_config.PATTERN, granule_id)
    IN  IF fields = NoMatch THEN OnNoMatch(st, granule_id)
        ELSE
        LET unique_id == UniqueId(fields, product_config.UNIQUE_GROUPS)
            agg_date == AggDate(fields[product_config.AGG_TS_GROUP],
                                product_config.AGG_TS_FORMAT)
            bd1 == Bump(st.by_date, agg_date, "total")
        IN  IF unique_id \in DOMAIN st.unique_granules
            THEN LET existing == st.unique_granules[unique_id]
                     bd2 == Bump(bd1, agg_date, "duplicates")
                 IN  IF creation_field # ""
                     THEN IF CurrentIsNewer(fields[creation_field], existing[2])
                          THEN [unique_granules |->
                                    DictSet(st.unique_granules, unique_id,
                                            <<granule_id, fields[creation_field]>>),
                                all_duplicates |->
                                    Append(st.all_duplicates, existing[1]),
                                by_date |-> bd2]
                          ELSE [st EXCEPT
                                    !.all_duplicates = Append(@, granule_id),
                                    !.by_date = bd2]
                     ELSE FirstSeenWins(st, unique_id, granule_id, bd2)
            ELSE LET creation_ts == IF creation_field # ""
                                    THEN fields[creation_field] ELSE ""
                 IN  [unique_granules |->
                          DictSet(st.unique_granules, unique_id,
                                  <<granule_id, creation_ts>>),
                      all_duplicates |-> st.all_duplicates,
                      by_date |-> Bump(bd1, agg_date, "unique")]

EmptyDict == [k \in {} |-> 0]

LoopStart == [unique_granules |-> EmptyDict, all_duplicates |-> <<>>,
              by_date |-> EmptyDict]

\* The date keys of by_date in ascending order: dict(sorted(by_date.items())).
RECURSIVE SortedDates(_)
SortedDates(S) ==
    IF S = {} THEN <<>>
    ELSE LET m == CHOOSE x \in S : \A y \in S \ {x} :
                                       LexLess(Chars(x), Chars(y))
         IN  <<m>> \o SortedDates(S \ {m})

DupResultDistinct(st, granule_ids) ==
    [total |-> Len(granule_ids),
     unique |-> Cardinality(DOMAIN st.unique_granules),
     duplicates |-> Len(st.all_duplicates),
     duplicate_list |-> SortedList(Range(st.all_duplicates)),
     by_date |-> [k \in 1..Cardinality(DOMAIN st.by_date) |->
                     LET d == SortedDates(DOMAIN st.by_date)[k]
                     IN  <<d, st.by_date[d]>>]]

\* The dict detect_duplicates returns.
DupResult(st, granule_ids) ==
    [total |-> Len(granule_ids),
     unique |-> Cardinality(DOMAIN st.unique_granules),
     duplicates |-> Len(st.all_duplicates),
     duplicate_list |-> Sorted(st.all_duplicates),
     by_date |-> [k \in 1..Cardinality(DOMAIN st.by_date) |->
                     LET d == SortedDates(DOMAIN st.by_date)[k]
                     IN  <<d, st.by_date[d]>>]]

\* granule_ids = [g['umm']['GranuleUR'] for g in cmr_granules]
GranuleIds(records) == [k \in 1..Len(records) |-> records[k].GranuleUR]

\* The whole function on one input: the loop run over the list, then the
\* returned dict.
RECURSIVE RunLoop(_, _, _)
RunLoop(st, prod, ids) ==
    IF ids = <<>> THEN st
    ELSE RunLoop(LoopBody(st, prod, Head(ids)), prod, Tail(ids))

DetectDuplicates(records, prod) ==
    IF ProductConfig(prod) = KeyError THEN KeyError
    ELSE DupResult(RunLoop(LoopStart, prod, GranuleIds(records)),
                   GranuleIds(records))

(***************************************************************************)
(* analyze_duplicates_from_cmr, the reference analysis of the integration  *)
(* tests                                                                   *)
(***************************************************************************)
\* unique_groups[unique_key]: the matched records of one key, in input order
RECURSIVE GroupOfKey(_, _, _)
GroupOfKey(ids, prod, unique_key) ==
    IF ids = <<>> THEN <<>>
    ELSE LET product_config == ProductConfig(prod)
             creation_field == product_config.CREATE_TS_GROUP
             fields == PatternMatch(product_config.PATTERN, Head(ids))
             rest == GroupOfKey(Tail(ids), prod, unique_key)
         IN  IF fields # NoMatch
                /\ UniqueId(fields, product_config.UNIQUE_GROUPS) = unique_key
             THEN <<[id |-> Head(ids),
                     creation_ts |-> IF creation_field # ""
                                     THEN fields[creation_field] ELSE ""]>>
                  \o rest
             ELSE rest

\* sorted(group_granules, key=lambda x: x['creation_ts']): a stable sort, so
\* x goes behind every element whose key is not greater than its own
RECURSIVE InsertStable(_, _)
InsertStable(sorted_granules, x) ==
    IF sorted_granules = <<>> THEN <<x>>
    ELSE IF StrGreater(Head(sorted_granules).creation_ts, x.creation_ts)
         THEN <<x>> \o sorted_granules
         ELSE <<Head(sorted_granules)>> \o InsertStable(Tail(sorted_granules), x)

RECURSIVE SortedByCreation(_)
SortedByCreation(group_granules) ==
    IF group_granules = <<>> THEN <<>>
    ELSE InsertStable(
             SortedByCreation(SubSeq(group_granules, 1, Len(group_granules) - 1)),
             group_granules[Len(group_granules)])

\* for g in sorted_granules[:-1]: duplicates.append(g['id']), over the keys
RECURSIVE AllButLast(_, _, _)
AllButLast(keys, ids, prod) ==
    IF keys = {} THEN <<>>
    ELSE LET unique_key == CHOOSE k \in keys : TRUE
             sorted_granules == SortedByCreation(GroupOfKey(ids, prod, unique_key))
         IN  [n \in 1..Len(sorted_granules) - 1 |-> sorted_granules[n].id]
                 \o AllButLast(keys \ {unique_key}, ids, prod)

AnalyzeDuplicatesFromCmr(records, prod) ==
    LET product_config == ProductConfig(prod)
        ids == GranuleIds(records)
        matched == {n \in 1..Len(ids) :
                       PatternMatch(product_config.PATTERN, ids[n]) # NoMatch}
        keys == {UniqueId(PatternMatch(product_config.PATTERN, ids[n]),
                          product_config.UNIQUE_GROUPS) : n \in matched}
        duplicates == AllButLast(keys, ids, prod)
    IN  [total |-> Len(ids),
         unique |-> Cardinality(keys),
         duplicates |-> Len(duplicates),
         duplicate_list |-> Sorted(duplicates)]

(***************************************************************************)
(* The granule identifiers the catalog may return in the model: a          *)
(* DSWx-HLS identifier and every identifier that differs from it in one    *)
(* field, two revisions with the same creation timestamp, an identifier    *)
(* with trailing characters, one the DSWx-HLS pattern rejects, and         *)
(* CSLC-S1-STATIC identifiers (which carry no creation timestamp).         *)
(***************************************************************************)
DswxId(tile, acq, cre, sensor, ver) ==
    <<"OPERA_L3_DSWx-HLS", tile, acq, cre, sensor, "30", ver>>

StaticId(burst, ver) ==
    <<"OPERA_L2_CSLC-S1-STATIC", burst, "20140403", "S1A", ver>>

DswxSampleIds ==
    { DswxId("T10TEM", "20260115T180931Z", "20260115T235959Z", "L8", "v1.0"),
      DswxId("T10TEM", "20260115T180931Z", "20260116T003045Z", "L8", "v1.0"),
      DswxId("T10TEM", "20260115T180931Z", "20260116T003045Z", "L8", "v1.1"),
      DswxId("T10TEM", "20260115T180931Z", "20260116T003045Z", "L8", "v1.0")
          \o <<".tmp">>,
      DswxId("T11SKA", "20260115T180931Z", "20260115T235959Z", "L8", "v1.0"),
      DswxId("T10TEM", "20260115T183045Z", "20260115T235959Z", "L8", "v1.0"),
      DswxId("T10TEM", "20260116T180931Z", "20260116T120000Z", "L8", "v1.0"),
      DswxId("T10TEM", "20260115T180931Z", "20260115T235959Z", "S2A", "v1.0"),
      DswxId("T10TEM", "20260115T180931Z", "20260115T235959Z", "L7", "v1.0") }

StaticSampleIds ==
    { StaticId("T064-135518-IW1", "v1.0"),
      StaticId("T064-135518-IW1", "v1.1"),
      StaticId("T064-135518-IW2", "v1.0") }

\* What a query of one product's collection may hold: the product's own
\* identifiers and one of the other product.
SampleIds(prod) ==
    IF prod = "DSWX_HLS"
    THEN DswxSampleIds \cup {StaticId("T064-135518-IW1", "v1.0")}
    ELSE StaticSampleIds \cup
         {DswxId("T10TEM", "20260115T180931Z", "20260115T235959Z", "L8", "v1.0")}

SeqsUpTo(S, n) == UNION {[1..k -> S] : k \in 0..n}

IdleDup ==
    /\ product = "DSWX_HLS"
    /\ cmr_granules = <<>>
    /\ dd_pc = "idle"
    /\ dd_i = 0
    /\ unique_granules = EmptyDict
    /\ all_duplicates = <<>>
    /\ by_date = EmptyDict
    /\ dd_result = NoResult

\* The call detect_duplicates(cmr_granules, product).
InitDup ==
    /\ product \in RequestedProducts
    /\ cmr_granules \in SeqsUpTo([GranuleUR : SampleIds(product)], MaxGranules)
    /\ dd_pc = "start"
    /\ dd_i = 0
    /\ unique_granules = LoopStart.unique_granules
    /\ all_duplicates = LoopStart.all_duplicates
    /\ by_date = LoopStart.by_date
    /\ dd_result = NoResult

\* The body up to the for loop: the configuration lookup raises KeyError for
\* a product that is not configured.
DupStart ==
    /\ dd_pc = "start"
    /\ IF ProductConfig(product) = KeyError
       THEN /\ dd_pc' = "raised"
            /\ dd_result' = KeyError
       ELSE /\ dd_pc' = "loop"
            /\ UNCHANGED dd_result
    /\ UNCHANGED <<product, cmr_granules, dd_i, unique_granules,
                   all_duplicates, by_date>>

\* One iteration of `for granule_id in granule_ids`.
DupLoopStep ==
    /\ dd_pc = "loop"
    /\ dd_i < Len(cmr_granules)
    /\ LET st == LoopBody([unique_granules |-> unique_granules,
                           all_duplicates |-> all_duplicates,
                           by_date |-> by_date],
                          product, GranuleIds(cmr_granules)[dd_i + 1])
       IN  /\ unique_granules' = st.unique_granules
           /\ all_duplicates' = st.all_duplicates
           /\ by_date' = st.by_date
    /\ dd_i' = dd_i + 1
    /\ UNCHANGED <<product, cmr_granules, dd_pc, dd_result>>

\* The loop is exhausted: sort, count and return.
DupReturn ==
    /\ dd_pc = "loop"
    /\ dd_i = Len(cmr_granules)
    /\ dd_result' = DupResult([unique_granules |-> unique_granules,
                               all_duplicates |-> all_duplicates,
                               by_date |-> by_date],
                              GranuleIds(cmr_granules))
    /\ dd_pc' = "done"
    /\ UNCHANGED <<product, cmr_granules, dd_i, unique_granules,
                   all_duplicates, by_date>>

NextDup ==
    \/ DupStart /\ UNCHANGED <<aa_vars, qc_vars, rq_vars, cli_vars, script_vars>>
    \/ DupLoopStep /\ UNCHANGED <<aa_vars, qc_vars, rq_vars, cli_vars, script_vars>>
    \/ DupReturn /\ UNCHANGED <<aa_vars, qc_vars, rq_vars, cli_vars, script_vars>>

(***************************************************************************)
(* analyze_accountability                                                  *)
(***************************************************************************)

\* hls_pattern: HLS[.][SL]30[.]T[^\W_]{5}[.]\d{7}T\d{6}[.]v\d+[.]\d+
HlsTimestampTokens == {"2026001T183821", "2025274T183821"}
HLS_PATTERN ==
    << [group |-> "", tokens |-> {"HLS"}],
       [group |-> "product_shortname", tokens |-> {"S30", "L30"}],
       [group |-> "tile_id", tokens |-> TileTokens],
       [group |-> "acquisition_ts", tokens |-> HlsTimestampTokens],
       [group |-> "collection_version", tokens |-> {"v2.0"}] >>

\* hls_suffix_pattern: the tokens [.](B[A-Za-z0-9]{2}|Fmask) accepts; the
\* pattern wants one of them followed by ".tif" at the end of the name.
BandTokens == {".B02", ".B03", ".Fmask"}

WholePath(path) == path

\* os.path.basename: what follows the last "/".
RECURSIVE basename(_)
basename(path) ==
    IF \E k \in DOMAIN path : path[k] = "/"
    THEN basename(Tail(path))
    ELSE path

KeepSuffix(input_name) == input_name

\* re.sub(hls_suffix_pattern, '', input_name)

StripSuffix(input_name) ==
    LET n == Len(input_name)
    IN  IF n >= 2 /\ input_name[n] = ".tif" /\ input_name[n - 1] \in BandTokens
        THEN SubSeq(input_name, 1, n - 2)
        ELSE input_name

\* datetime.fromisoformat(...) of a timestamp string, as an instant: the
\* milliseconds since 2025-10-01T00:04:07.135 UTC.
ParseInstant(str) ==
    CASE str = "2025-09-30T18:38:21+00:00" -> -19546135
      [] str = "2025-10-01T00:04:07.134000Z" -> -1
      [] str = "2025-10-01T00:04:07.135000Z" -> 0
      [] str = "2025-10-01T18:38:21+00:00" -> 66853865
      [] str = "2025-09-30T18:38:21.000000Z" -> -19546135
      [] str = "2025-10-01T18:38:21.000000Z" -> 66853865

\* _parse_l9_cutoff: the configured l9_cutoff_date as a UTC instant.
L9_CUTOFF == ParseInstant("2025-10-01T00:04:07.135000Z")

FilteredAtCutoff(platforms, acq_time) ==
    "LANDSAT-9" \in Range(platforms) /\ acq_time <= L9_CUTOFF

\* 'LANDSAT-9' in platforms and acq_time < L9_CUTOFF

FilteredOut(platforms, acq_time) ==
    "LANDSAT-9" \in Range(platforms) /\ acq_time < L9_CUTOFF

\* hls_to_dswx[input_name].append(granule_id) on a defaultdict(list)
DictAppend(dict, key, value) ==
    DictSet(dict, key, IF key \in DOMAIN dict THEN Append(dict[key], value)
                       ELSE <<value>>)

RECURSIVE MapInputsUnfiltered(_, _, _)
MapInputsUnfiltered(dict, input_granules, granule_id) ==
    IF input_granules = <<>> THEN dict
    ELSE MapInputsUnfiltered(
             DictAppend(dict, StripSuffix(basename(Head(input_granules))),
                        granule_id),
             Tail(input_granules), granule_id)

\* The inner loop over one output record's InputGranules.
RECURSIVE MapInputs(_, _, _)
MapInputs(dict, input_granules, granule_id) ==
    IF input_granules = <<>> THEN dict
    ELSE LET input_name == StripSuffix(basename(Head(input_granules)))
             next == IF PatternMatch(HLS_PATTERN, input_name) # NoMatch
                     THEN DictAppend(dict, input_name, granule_id)
                     ELSE dict
         IN  MapInputs(next, Tail(input_granules), granule_id)

\* missing = [hls_id for hls_id, dswx_list in hls_to_dswx.items()
\*            if len(dswx_list) == 0]
Missing(dict) == {k \in DOMAIN dict : Len(dict[k]) = 0}

AccResultCountingMapped(dict, filtered) ==
    LET missing == Missing(dict)
    IN  [expected |-> Len(filtered),
         actual |-> Cardinality({k \in DOMAIN dict : Len(dict[k]) > 0}),
         missing |-> SortedList(missing),
         missing_count |-> Cardinality(missing),
         by_date |-> EmptyDict]

\* The dict analyze_accountability returns.
AccResult(dict, filtered) ==
    LET missing == Missing(dict)
    IN  [expected |-> Len(filtered),
         actual |-> Len(filtered) - Cardinality(missing),
         missing |-> SortedList(missing),
         missing_count |-> Cardinality(missing),
         by_date |-> EmptyDict]

\* The loop over dswx_granules, on the mapping.
RECURSIVE MapOutputs(_, _)
MapOutputs(dict, outputs) ==
    IF outputs = <<>> THEN dict
    ELSE MapOutputs(MapInputs(dict, Head(outputs).InputGranules,
                              Head(outputs).GranuleUR),
                    Tail(outputs))

\* The loop over hls_granules, on st = [hls_to_dswx, filtered_hls].
RECURSIVE FilterInputs(_, _)
FilterInputs(st, inputs) ==
    IF inputs = <<>> THEN st
    ELSE LET granule == Head(inputs)
             granule_id == granule.GranuleUR
             next ==
                 IF FilteredOut(granule.Platforms,
                                ParseInstant(granule.BeginningDateTime))
                 THEN st
                 ELSE [filtered_hls |-> Append(st.filtered_hls, granule_id),
                       hls_to_dswx |->
                           IF granule_id \notin DOMAIN st.hls_to_dswx
                           THEN DictSet(st.hls_to_dswx, granule_id, <<>>)
                           ELSE st.hls_to_dswx]
         IN  FilterInputs(next, Tail(inputs))

\* The whole function on one input.
AnalyzeAccountability(outputs, inputs) ==
    LET st == FilterInputs([hls_to_dswx |-> MapOutputs(EmptyDict, outputs),
                            filtered_hls |-> <<>>], inputs)
    IN  AccResult(st.hls_to_dswx, st.filtered_hls)

(***************************************************************************)
(* The records the catalog may return in the model.                        *)
(***************************************************************************)
HlsS == <<"HLS", "S30", "T10TEM", "2026001T183821", "v2.0">>
HlsL == <<"HLS", "L30", "T10TEM", "2026001T183821", "v2.0">>
HlsL9 == <<"HLS", "L30", "T10TEM", "2025274T183821", "v2.0">>

DswxRecord(granule_ur, input_granules) ==
    [GranuleUR |-> granule_ur, InputGranules |-> input_granules]

HlsRecord(granule_ur, beginning, platforms) ==
    [GranuleUR |-> granule_ur, BeginningDateTime |-> beginning,
     Platforms |-> platforms]

SampleOutputs ==
    { DswxRecord(DswxId("T10TEM", "20260115T180931Z", "20260115T235959Z",
                        "S2A", "v1.0"),
                 << HlsS \o <<".B02", ".tif">>,
                    HlsS \o <<".B03", ".tif">>,
                    <<"s3://bucket", "/", "inputs", "/">> \o HlsS
                        \o <<".Fmask", ".tif">> >>),
      DswxRecord(DswxId("T10TEM", "20260115T180931Z", "20260115T235959Z",
                        "L8", "v1.0"),
                 << HlsL \o <<".B02", ".tif">>,
                    <<"worldcover_0", ".tif">>,
                    <<"GSHHS_f_L1", ".shp">> >>),
      DswxRecord(DswxId("T10TEM", "20260115T180931Z", "20260116T003045Z",
                        "L8", "v1.0"),
                 << <<"inputs", "/">> \o HlsL \o <<".Fmask", ".tif">> >>),
      DswxRecord(DswxId("T10TEM", "20260115T180931Z", "20260116T003045Z",
                        "S2A", "v1.0"),
                 << HlsS \o <<".SAA", ".tif">>, <<"worldcover_0", ".tif">> >>),
      DswxRecord(DswxId("T11SKA", "20260115T180931Z", "20260115T235959Z",
                        "L8", "v1.0"),
                 << >>) }

SampleInputs ==
    {HlsRecord(HlsS, t, <<"SENTINEL-2A">>) :
        t \in {"2025-09-30T18:38:21+00:00", "2025-10-01T18:38:21+00:00"}}
    \cup
    {HlsRecord(HlsL, t, p) :
        t \in {"2025-10-01T00:04:07.134000Z", "2025-10-01T00:04:07.135000Z",
               "2025-10-01T18:38:21+00:00"},
        p \in {<<"LANDSAT-8">>, <<"LANDSAT-9">>}}
    \cup
    {HlsRecord(HlsL9, "2025-09-30T18:38:21+00:00", <<"LANDSAT-9">>)}

\* One logger call: the message, the count it formats and the granule id
\* it names (<<>> when it names none).
LogCount(msg, count) == [msg |-> msg, count |-> count, granule_id |-> <<>>]
LogGranule(msg, granule_id) == [msg |-> msg, count |-> 0, granule_id |-> granule_id]

IdleAcc ==
    /\ aa_log = <<>>
    /\ dswx_granules = <<>>
    /\ hls_granules = <<>>
    /\ aa_pc = "idle"
    /\ aa_i = 0
    /\ hls_to_dswx = EmptyDict
    /\ filtered_hls = <<>>
    /\ aa_result = NoResult

\* The call analyze_accountability(dswx_granules, hls_granules), up to the
\* first loop.
InitAcc ==
    /\ dswx_granules \in SeqsUpTo(SampleOutputs, MaxOutputs)
    /\ hls_granules \in SeqsUpTo(SampleInputs, MaxInputs)
    /\ aa_pc = "dswx"
    /\ aa_i = 0
    /\ hls_to_dswx = EmptyDict
    /\ filtered_hls = <<>>
    /\ aa_result = NoResult
    /\ aa_log = <<LogCount("Processing DSWx-HLS granules", Len(dswx_granules))>>

\* One iteration of `for granule in dswx_granules`.
AccDswxStep ==
    /\ aa_pc = "dswx"
    /\ aa_i < Len(dswx_granules)
    /\ LET granule == dswx_granules[aa_i + 1]
       IN  hls_to_dswx' = MapInputs(hls_to_dswx, granule.InputGranules,
                                    granule.GranuleUR)
    /\ aa_i' = aa_i + 1
    /\ UNCHANGED <<dswx_granules, hls_granules, aa_pc, filtered_hls, aa_result,
                   aa_log>>

\* The first loop is exhausted: on to the loop over hls_granules.
AccStartHls ==
    /\ aa_pc = "dswx"
    /\ aa_i = Len(dswx_granules)
    /\ aa_pc' = "hls"
    /\ aa_i' = 0
    /\ aa_log' = aa_log \o
           <<LogCount("Mapped DSWx to unique HLS inputs",
                      Cardinality(DOMAIN hls_to_dswx)),
             LogCount("Processing HLS granules", Len(hls_granules))>>
    /\ UNCHANGED <<dswx_granules, hls_granules, hls_to_dswx, filtered_hls,
                   aa_result>>

\* One iteration of `for granule in hls_granules`.
AccHlsStep ==
    /\ aa_pc = "hls"
    /\ aa_i < Len(hls_granules)
    /\ LET granule == hls_granules[aa_i + 1]
           granule_id == granule.GranuleUR
           acq_time == ParseInstant(granule.BeginningDateTime)
       IN  IF FilteredOut(granule.Platforms, acq_time)
           THEN /\ aa_log' = Append(aa_log,
                        LogGranule("Filtering out L9 granule before cutoff",
                                   granule_id))
                /\ UNCHANGED <<filtered_hls, hls_to_dswx>>
           ELSE /\ filtered_hls' = Append(filtered_hls, granule_id)
                /\ UNCHANGED aa_log
                /\ hls_to_dswx' = IF granule_id \notin DOMAIN hls_to_dswx
                                  THEN DictSet(hls_to_dswx, granule_id, <<>>)
                                  ELSE hls_to_dswx
    /\ aa_i' = aa_i + 1
    /\ UNCHANGED <<dswx_granules, hls_granules, aa_pc, aa_result>>

\* The second loop is exhausted: collect the missing inputs and return.
AccReturn ==
    /\ aa_pc = "hls"
    /\ aa_i = Len(hls_granules)
    /\ aa_result' = AccResult(hls_to_dswx, filtered_hls)
    /\ aa_log' = aa_log \o
           <<LogCount("After L9 filtering: HLS granules", Len(filtered_hls)),
             LogCount("HLS granules with no DSWx output",
                      Cardinality(Missing(hls_to_dswx)))>>
    /\ aa_pc' = "done"
    /\ UNCHANGED <<dswx_granules, hls_granules, aa_i, hls_to_dswx, filtered_hls>>

NextAcc ==
    \/ AccDswxStep /\ UNCHANGED <<dd_vars, qc_vars, rq_vars, cli_vars, script_vars>>
    \/ AccStartHls /\ UNCHANGED <<dd_vars, qc_vars, rq_vars, cli_vars, script_vars>>
    \/ AccHlsStep /\ UNCHANGED <<dd_vars, qc_vars, rq_vars, cli_vars, script_vars>>
    \/ AccReturn /\ UNCHANGED <<dd_vars, qc_vars, rq_vars, cli_vars, script_vars>>

(***************************************************************************)
(* query_cmr, _do_cmr_request and the catalog                              *)
(***************************************************************************)

\* No CMR-Search-After header (None); `while search_after` also stops on an
\* empty header value.
NoToken == <<>>
NoError == [none |-> TRUE]

\* The catalog: a request without a token is answered with the first page,
\* a request carrying the token of page k with page k; the response names
\* the next page in its CMR-Search-After header, the last page carries none.
ServerResponse(pages, token) ==
    LET k == IF token = NoToken THEN 1 ELSE token[1]
    IN  [items |-> pages[k],
         search_after |-> IF k < Len(pages) THEN <<k + 1>> ELSE NoToken]

\* _fatal_code: err.response.status_code not in [401, 418, 429, 500, ...]
\* (called with an exception that carries a response)
NeverFatal(status_code) == FALSE

AlwaysFatal(status_code) == TRUE

FatalCode(status_code) ==
    status_code \notin {401, 418, 429, 500, 502, 503, 504}

\* What one GET may end in besides a page: an HTTP error status
\* (raise_for_status) or an exception without a response.
HttpErrors == {401, 404, 429, 501, 503}
\* the status of a response raise_for_status lets through
StatusOk == 200
\* no request answered yet
NoStatus == 0
RequestErrors == HttpErrors \cup {-1}
NetworkError == -1

\* headers of the request under way: none for the first request, the last
\* response's token afterwards.
TokenToSend(pc, last_token) == IF pc = "first" THEN NoToken ELSE last_token

\* granules.extend(page_granules)
ExtendFront(list, page_granules) == page_granules \o list

Extend(list, page_granules) == list \o page_granules

IdleCmr ==
    /\ server_pages = <<>>
    /\ qc_pc = "idle"
    /\ granules = <<>>
    /\ search_after = NoToken
    /\ requests_sent = <<>>
    /\ tries = 0
    /\ last_status = NoStatus
    /\ qc_error = NoError

CatalogItems == {"granule-a", "granule-b"}

\* The call query_cmr(collection_id, ...), up to the first request.
InitCmr ==
    /\ server_pages \in
           UNION {[1..n -> SeqsUpTo(CatalogItems, PageSize)] : n \in 1..MaxPages}
    /\ qc_pc = "first"
    /\ granules = <<>>
    /\ search_after = NoToken
    /\ requests_sent = <<>>
    /\ tries = 0
    /\ last_status = NoStatus
    /\ qc_error = NoError

\* _do_cmr_request returns a page: extend the list, keep the token, and
\* leave the loop when the response carried none.
CmrPage ==
    /\ qc_pc \in {"first", "paginate"}
    /\ LET token == TokenToSend(qc_pc, search_after)
           response == ServerResponse(server_pages, token)
       IN  /\ requests_sent' = Append(requests_sent, [token |-> token, ok |-> TRUE])
           /\ granules' = Extend(granules, response.items)
           /\ search_after' = response.search_after
           /\ qc_pc' = IF response.search_after # NoToken THEN "paginate"
                       ELSE "done"
    /\ tries' = 0
    /\ last_status' = StatusOk
    /\ UNCHANGED <<server_pages, qc_error>>

\* One GET of _do_cmr_request raises.  backoff calls giveup(_fatal_code):
\* an exception without a response makes _fatal_code itself raise, a fatal
\* status or an exhausted time budget re-raises, anything else waits and
\* issues the same request again.
CmrError ==
    /\ qc_pc \in {"first", "paginate"}
    /\ \E err \in RequestErrors :
        /\ requests_sent' = Append(requests_sent,
               [token |-> TokenToSend(qc_pc, search_after), ok |-> FALSE])
        /\ last_status' = err
        /\ IF err = NetworkError
           THEN /\ qc_pc' = "raised"
                /\ qc_error' = [type |-> "AttributeError", status |-> err,
                                tries |-> tries + 1]
                /\ UNCHANGED tries
           ELSE IF FatalCode(err) \/ tries + 1 >= MaxTries
           THEN /\ qc_pc' = "raised"
                /\ qc_error' = [type |-> "HTTPError", status |-> err,
                                tries |-> tries + 1]
                /\ UNCHANGED tries
           ELSE /\ tries' = tries + 1
                /\ UNCHANGED <<qc_pc, qc_error>>
    /\ UNCHANGED <<server_pages, granules, search_after>>

NextCmr ==
    \/ CmrPage /\ UNCHANGED <<dd_vars, aa_vars, rq_vars, cli_vars, script_vars>>
    \/ CmrError /\ UNCHANGED <<dd_vars, aa_vars, rq_vars, cli_vars, script_vars>>

(***************************************************************************)
(* audit_dswx_inputs._request                                              *)
(***************************************************************************)
\* tries: int = 5
DefaultTries == 5

\* What one session.get may end in: a response with a status code, or an
\* exception.
ResponseStatuses == {200, 404, 500, 503}
RequestExceptions == {"ConnectionError", "ReadTimeout"}
Outcomes == [status : ResponseStatuses] \cup [exception : RequestExceptions]
IsResponse(outcome) == "status" \in DOMAIN outcome

RequestUrls == {"https://cmr.earthdata.nasa.gov/search/granules.json"}

\* last = None
NoneValue == [none |-> TRUE]

\* 2 ** n
RECURSIVE Pow2(_)
Pow2(n) == IF n = 0 THEN 1 ELSE 2 * Pow2(n - 1)

Min(a, b) == IF a < b THEN a ELSE b

\* min(2 ** (i + 1), 10)
BackoffSeconds(i) == Min(Pow2(i + 1), 10)

IdleReq ==
    /\ rq_pc = "idle"
    /\ rq_url = ""
    /\ rq_tries = 0
    /\ rq_i = 0
    /\ rq_last = NoneValue
    /\ rq_attempts = <<>>
    /\ rq_slept = <<>>
    /\ rq_result = NoResult

\* The call _request(session, url, ..., tries), up to the for loop.
InitReq ==
    /\ rq_pc = "loop"
    /\ rq_url \in RequestUrls
    /\ rq_tries \in 0..DefaultTries
    /\ rq_i = 0
    /\ rq_last = NoneValue
    /\ rq_attempts = <<>>
    /\ rq_slept = <<>>
    /\ rq_result = NoResult

\* One iteration of `for i in range(tries)`: a response below 500 is
\* returned, a 5xx response sleeps and continues, an exception is kept in
\* `last` and sleeps.
RequestAttempt ==
    /\ rq_pc = "loop"
    /\ rq_i < rq_tries
    /\ \E outcome \in Outcomes :
        /\ rq_attempts' = Append(rq_attempts, outcome)
        /\ IF IsResponse(outcome)
           THEN IF outcome.status >= 500
                THEN /\ rq_slept' = Append(rq_slept, BackoffSeconds(rq_i))
                     /\ rq_i' = rq_i + 1
                     /\ UNCHANGED <<rq_pc, rq_last, rq_result>>
                ELSE /\ rq_pc' = "returned"
                     /\ rq_result' = [response |-> outcome]
                     /\ UNCHANGED <<rq_i, rq_last, rq_slept>>
           ELSE /\ rq_last' = outcome
                /\ rq_slept' = Append(rq_slept, BackoffSeconds(rq_i))
                /\ rq_i' = rq_i + 1
                /\ UNCHANGED <<rq_pc, rq_result>>
    /\ UNCHANGED <<rq_url, rq_tries>>

\* The loop is exhausted:
\* raise RuntimeError(f"Request failed after {tries} tries: {url}. Last error: {last}")
RequestRaise ==
    /\ rq_pc = "loop"
    /\ rq_i >= rq_tries
    /\ rq_pc' = "raised"
    /\ rq_result' = [error |-> "RuntimeError", tries |-> rq_tries,
                     url |-> rq_url, last |-> rq_last]
    /\ UNCHANGED <<rq_url, rq_tries, rq_i, rq_last, rq_attempts, rq_slept>>

NextReq ==
    \/ RequestAttempt /\ UNCHANGED <<dd_vars, aa_vars, qc_vars, cli_vars, script_vars>>
    \/ RequestRaise /\ UNCHANGED <<dd_vars, aa_vars, qc_vars, cli_vars, script_vars>>

(***************************************************************************)
(* The duplicates command of the opera-audit CLI: query_cmr, then          *)
(* detect_duplicates on what it returned, then the summary.                *)
(***************************************************************************)
IdleCli == cli_pc = "idle"

\* The records a queried collection may hold: one of each product.
RunRecords ==
    [GranuleUR :
        {DswxId("T10TEM", "20260115T180931Z", "20260115T235959Z", "L8", "v1.0"),
         StaticId("T064-135518-IW1", "v1.0")}]

IsRegisteredAlways(prod) == TRUE

\* product in CONFIG['products']
IsRegistered(prod) == prod \in DOMAIN PRODUCTS

\* The command duplicates(product, ...), for a venue whose collection id is
\* configured.
InitCli ==
    /\ cli_pc = "start"
    /\ product \in RequestedProducts
    /\ cmr_granules = <<>>
    /\ dd_pc = "idle"
    /\ dd_i = 0
    /\ unique_granules = EmptyDict
    /\ all_duplicates = <<>>
    /\ by_date = EmptyDict
    /\ dd_result = NoResult
    /\ server_pages \in
           UNION {[1..n -> SeqsUpTo(RunRecords, PageSize)] : n \in 1..MaxPages}
    /\ qc_pc = "first"
    /\ granules = <<>>
    /\ search_after = NoToken
    /\ requests_sent = <<>>
    /\ tries = 0
    /\ last_status = NoStatus
    /\ qc_error = NoError

\* Validate the product (an unknown one prints an error and raises
\* typer.Exit(1)), compute the date range, and call query_cmr.
CliValidate ==
    /\ cli_pc = "start"
    /\ cli_pc' = IF IsRegistered(product) THEN "query" ELSE "exit1"
    /\ UNCHANGED <<dd_vars, qc_vars>>

\* query_cmr raised: the command has no handler, the run ends in the error.
CliQueryFailed ==
    /\ cli_pc = "query"
    /\ qc_pc = "raised"
    /\ cli_pc' = "error"
    /\ UNCHANGED <<dd_vars, qc_vars>>

\* query_cmr returned: with no granules the command prints a notice and
\* returns, otherwise it calls detect_duplicates(cmr_granules, product).
CliDetect ==
    /\ cli_pc = "query"
    /\ qc_pc = "done"
    /\ IF Len(granules) = 0
       THEN /\ cli_pc' = "no_granules"
            /\ UNCHANGED dd_vars
       ELSE /\ cli_pc' = "detect"
            /\ cmr_granules' = granules
            /\ dd_pc' = "start"
            /\ dd_i' = 0
            /\ unique_granules' = LoopStart.unique_granules
            /\ all_duplicates' = LoopStart.all_duplicates
            /\ by_date' = LoopStart.by_date
            /\ UNCHANGED <<product, dd_result>>
    /\ UNCHANGED qc_vars

\* detect_duplicates returned: the summary table (or the quiet line) is
\* printed and the command ends.
CliSummary ==
    /\ cli_pc = "detect"
    /\ dd_pc = "done"
    /\ cli_pc' = "summary"
    /\ UNCHANGED <<dd_vars, qc_vars>>

NextCli ==
    \/ CliValidate /\ UNCHANGED <<aa_vars, rq_vars, script_vars>>
    \/ cli_pc = "query" /\ CmrPage /\ UNCHANGED <<dd_vars, aa_vars, rq_vars, cli_vars, script_vars>>
    \/ cli_pc = "query" /\ CmrError /\ UNCHANGED <<dd_vars, aa_vars, rq_vars, cli_vars, script_vars>>
    \/ CliQueryFailed /\ UNCHANGED <<aa_vars, rq_vars, script_vars>>
    \/ CliDetect /\ UNCHANGED <<aa_vars, rq_vars, script_vars>>
    \/ DupStart /\ UNCHANGED <<aa_vars, qc_vars, rq_vars, cli_vars, script_vars>>
    \/ DupLoopStep /\ UNCHANGED <<aa_vars, qc_vars, rq_vars, cli_vars, script_vars>>
    \/ DupReturn /\ UNCHANGED <<aa_vars, qc_vars, rq_vars, cli_vars, script_vars>>
    \/ CliSummary /\ UNCHANGED <<aa_vars, rq_vars, script_vars>>

(***************************************************************************)
(* audit_dswx_inputs.main: the scan of the DSWx-S1 granules of a CMR       *)
(* search and of the RTC-S1 inputs their UMM metadata lists.  A file name  *)
(* is the sequence of its "_"-separated tokens.                            *)
(***************************************************************************)
\* main has not returned
NoExit == -1

IdleAud ==
    /\ au_pc = "idle"
    /\ au_entries = <<>>
    /\ max_time_span_minutes = 10
    /\ au_total = 0
    /\ failures = <<>>
    /\ au_exit = NoExit

\* T\d{3}-\d+-IW\d, and the \d{3} it carries
RtcBurstTokens == {"T056-118754-IW2", "T127-271000-IW1"}

TrackOfBurst(tok) ==
    CASE tok = "T056-118754-IW2" -> "056"
      [] tok = "T127-271000-IW1" -> "127"

\* \d{8}T\d{6}Z
AcqTokens ==
    {"20260127T130031Z", "20260127T130056Z", "20260127T130531Z",
     "20260127T131031Z", "20260127T131032Z"}

\* v\d+\.\d+ at the start of a token: what the pattern consumes of it
VersionPrefix(tok) ==
    CASE tok = "v1.0" -> "v1.0"
      [] tok = "v1.0.h5" -> "v1.0"
      [] OTHER -> ""

BaseAt(g, i) ==
    /\ i + 8 <= Len(g)
    /\ g[i] = "OPERA"
    /\ g[i + 1] = "L2"
    /\ g[i + 2] = "RTC-S1"
    /\ g[i + 3] \in RtcBurstTokens
    /\ g[i + 4] \in AcqTokens
    /\ g[i + 5] \in AcqTokens
    /\ g[i + 6] \in {"S1A", "S1C"}
    /\ g[i + 7] = "30"
    /\ VersionPrefix(g[i + 8]) # ""

\* No match of a search: a name without tokens, a track without digits.
NoBase == <<>>
NoGroup == ""

\* RTC_BASE_RE.search(g): group 1 of the leftmost match, or NoBase
RtcBase(g) ==
    IF \E i \in 1..Len(g) : BaseAt(g, i)
    THEN LET i == CHOOSE j \in 1..Len(g) :
                      BaseAt(g, j) /\ \A k \in 1..(j - 1) : ~BaseAt(g, k)
         IN  SubSeq(g, i, i + 7) \o <<VersionPrefix(g[i + 8])>>
    ELSE NoBase

TrackAt(b, i) == i + 1 <= Len(b) /\ b[i] = "RTC-S1" /\ b[i + 1] \in RtcBurstTokens

\* RTC_TRACK_RE.search(b): group 1 of the leftmost match, or NoGroup
RtcTrack(b) ==
    IF \E i \in 1..Len(b) : TrackAt(b, i)
    THEN LET i == CHOOSE j \in 1..Len(b) :
                      TrackAt(b, j) /\ \A k \in 1..(j - 1) : ~TrackAt(b, k)
         IN  TrackOfBurst(b[i + 1])
    ELSE NoGroup

\* _(\d{8}T\d{6}Z)_ : a whole token with a token on either side
AcqAt(b, i) == 1 < i /\ i < Len(b) /\ b[i] \in AcqTokens

\* ACQ_TIME_RE.search(b): group 1 of the leftmost match, or NoGroup
AcqTime(b) ==
    IF \E i \in 1..Len(b) : AcqAt(b, i)
    THEN LET i == CHOOSE j \in 1..Len(b) :
                      AcqAt(b, j) /\ \A k \in 1..(j - 1) : ~AcqAt(b, k)
         IN  b[i]
    ELSE NoGroup

\* parse_time_utc(token), as the seconds since 2026-01-27T00:00:00Z
parse_time_utc(token) ==
    CASE token = "20260127T130031Z" -> 46831
      [] token = "20260127T130056Z" -> 46856
      [] token = "20260127T130531Z" -> 47131
      [] token = "20260127T131031Z" -> 47431
      [] token = "20260127T131032Z" -> 47432

\* f"UNPARSED::{x}"
Unparsed(x) == <<"UNPARSED::">> \o x

\* b.startswith("UNPARSED::")
IsUnparsed(b) == b # <<>> /\ Head(b) = "UNPARSED::"

dedupe_rtc_inputs(input_granules) ==
    LET names == Range(input_granules)
        bases == {RtcBase(g) : g \in {x \in names : RtcBase(x) # NoBase}}
        leftovers == {g \in names : RtcBase(g) = NoBase}
    IN  IF bases = {} THEN SortedList(names)
        ELSE SortedList(bases) \o
             [k \in 1..Cardinality(leftovers) |->
                  Unparsed(SortedList(leftovers)[k])]

UnparsedNote == "Some InputGranules could not be normalized (UNPARSED entries present)."
NoTrackNote == "Could not parse track"
NoTimeNote == "Could not parse acquisition time"

\* analyze_inputs(rtc_bases): the tracks, the acquisition times and the
\* notes (the set the joined string is made of)
analyze_inputs(rtc_bases) ==
    LET parsed == {b \in Range(rtc_bases) : ~IsUnparsed(b)}
    IN  [tracks |-> {RtcTrack(b) : b \in {x \in parsed : RtcTrack(x) # NoGroup}},
         times |-> {parse_time_utc(AcqTime(b)) :
                        b \in {x \in parsed : AcqTime(x) # NoGroup}},
         notes |-> {UnparsedNote : b \in {x \in Range(rtc_bases) : IsUnparsed(x)}}
                   \cup {NoTrackNote : b \in {x \in parsed : RtcTrack(x) = NoGroup}}
                   \cup {NoTimeNote : b \in {x \in parsed : AcqTime(x) = NoGroup}}]

SetMin(S) == CHOOSE x \in S : \A y \in S : x <= y
SetMax(S) == CHOOSE x \in S : \A y \in S : y <= x

\* float("nan") in acq_time_span_minutes
NaN == -1

FetchFailed == [raised |-> "RuntimeError"]

\* umm.get("GranuleUR") or dswx_ur
GranuleUrOr(umm, dswx_ur) ==
    IF umm.GranuleUR = <<>> THEN dswx_ur ELSE umm.GranuleUR

\* fetch_umm raised
FetchRaised(entry) == "raised" \in DOMAIN entry.umm

\* not umm.get("InputGranules"): the key is absent or its list is empty
NoInputGranules(umm) ==
    "InputGranules" \notin DOMAIN umm \/ umm.InputGranules = <<>>

\* Failure(...) of steps 1 and 2
MetadataFailure(ur, note) ==
    [dswx_granule_ur |-> ur, tracks_found |-> {}, acq_time_span_seconds |-> NaN,
     rtc_inputs_unique |-> <<>>, notes |-> {note}]

\* One pass of the loop body over an entry of the search: the Failure
\* records it appends.  The time span is kept in seconds.
ScanEntry(entry, max_minutes) ==
    IF FetchRaised(entry)
    THEN <<MetadataFailure(entry.title, "UMM fetch failed")>>
    ELSE IF NoInputGranules(entry.umm)
    THEN <<MetadataFailure(GranuleUrOr(entry.umm, entry.title),
                           "No InputGranules found in UMM metadata")>>
    ELSE LET rtc_unique == dedupe_rtc_inputs(entry.umm.InputGranules)
             a == analyze_inputs(rtc_unique)
             mixed_tracks == Cardinality(a.tracks) > 1
             span_seconds == IF a.times = {} THEN 0
                             ELSE SetMax(a.times) - SetMin(a.times)
             time_fail == IF a.times = {} THEN TRUE
                          ELSE span_seconds > 60 * max_minutes
         IN  IF mixed_tracks \/ time_fail
             THEN <<[dswx_granule_ur |-> GranuleUrOr(entry.umm, entry.title),
                     tracks_found |-> a.tracks,
                     acq_time_span_seconds |-> span_seconds,
                     rtc_inputs_unique |-> rtc_unique,
                     notes |-> a.notes
                         \cup (IF a.times = {}
                               THEN {"No parsable acquisition times found"}
                               ELSE {})
                         \cup (IF mixed_tracks THEN {"Mixed tracks detected"}
                               ELSE {})
                         \cup (IF time_fail /\ a.times # {}
                               THEN {"Acquisition time span exceeds"}
                               ELSE {})]>>
             ELSE <<>>

RtcName(burst, acq, tail) ==
    <<"OPERA", "L2", "RTC-S1", burst, acq, "20260127T130056Z", "S1A", "30">>
        \o tail

\* The InputGranules lists of the sample metadata.
SampleInputLists ==
    LET a == "T056-118754-IW2"
        c == "T127-271000-IW1"
        t0 == "20260127T130031Z"
    IN  {<<>>,
         <<RtcName(a, t0, <<"v1.0", "HH.tif">>), RtcName(a, t0, <<"v1.0", "HV.tif">>)>>,
         <<RtcName(a, t0, <<"v1.0.h5">>), RtcName(a, "20260127T130531Z", <<"v1.0">>)>>,
         <<RtcName(a, t0, <<"v1.0">>), RtcName(a, "20260127T131031Z", <<"v1.0">>)>>,
         <<RtcName(a, t0, <<"v1.0">>), RtcName(a, "20260127T131032Z", <<"v1.0">>)>>,
         <<RtcName(a, t0, <<"v1.0">>), RtcName(c, t0, <<"v1.0">>)>>,
         <<RtcName(c, t0, <<"v1.0">>), RtcName(a, "20260127T131032Z", <<"v1.0">>)>>,
         <<<<"unknown.tif">>>>,
         <<RtcName(a, t0, <<>>)>>,
         <<RtcName(a, t0, <<"v1.0", "HH.tif">>), <<"unknown.tif">>>>}

\* The title of the k-th granule of the search.
Title(k) == <<"OPERA", "L3", "DSWx-S1", k>>

\* What fetch_umm gives for the granule titled `title`.
SampleUmm(title) ==
    {FetchFailed, [GranuleUR |-> title], [GranuleUR |-> <<>>, InputGranules |-> <<>>]}
    \cup {[GranuleUR |-> title, InputGranules |-> l] : l \in SampleInputLists}

\* main() with the default --max-time-span-minutes, over a search that
\* yields up to MaxScanned granules.
InitAud ==
    /\ au_pc = "scan"
    /\ \E n \in 0..MaxScanned :
           au_entries \in {e \in [1..n -> [title : {Title(k) : k \in 1..n},
                                           umm : UNION {SampleUmm(Title(k)) : k \in 1..n}]] :
                               \A k \in 1..n : /\ e[k].title = Title(k)
                                               /\ e[k].umm \in SampleUmm(Title(k))}
    /\ max_time_span_minutes = 10
    /\ au_total = 0
    /\ failures = <<>>
    /\ au_exit = NoExit

\* The search yields its next granule and the loop body runs on it.
AudScan ==
    /\ au_pc = "scan"
    /\ au_total < Len(au_entries)
    /\ au_total' = au_total + 1
    /\ failures' = failures \o ScanEntry(au_entries[au_total + 1],
                                          max_time_span_minutes)
    /\ UNCHANGED <<au_pc, au_entries, max_time_span_minutes, au_exit>>

\* cmr_search_dswx raises (the search request failed): main has no handler.
AudSearchRaise ==
    /\ au_pc = "scan"
    /\ au_pc' = "raised"
    /\ UNCHANGED <<au_entries, max_time_span_minutes, au_total, failures, au_exit>>

\* The search is exhausted: the CSV is written and main returns.
AudReport ==
    /\ au_pc = "scan"
    /\ au_total = Len(au_entries)
    /\ au_exit' = IF failures # <<>> THEN 2 ELSE 0
    /\ au_pc' = "done"
    /\ UNCHANGED <<au_entries, max_time_span_minutes, au_total, failures>>

NextAud ==
    \/ AudScan /\ UNCHANGED <<dd_vars, aa_vars, qc_vars, rq_vars, cli_vars, lm_vars, dc_vars, cr_vars, fg_vars>>
    \/ AudSearchRaise /\ UNCHANGED <<dd_vars, aa_vars, qc_vars, rq_vars, cli_vars, lm_vars, dc_vars, cr_vars, fg_vars>>
    \/ AudReport /\ UNCHANGED <<dd_vars, aa_vars, qc_vars, rq_vars, cli_vars, lm_vars, dc_vars, cr_vars, fg_vars>>

(***************************************************************************)
(* dswx-hls-input-map.py: the accountability script that preceded          *)
(* opera-audit.  main maps the inputs of the DSWx-HLS granules, adds the   *)
(* HLS granules no output refers to, and reports counts and lists.         *)
(***************************************************************************)
\* The script's HLS_PATTERN and DSWX_PATTERN accept the names the
\* configuration of opera-audit accepts.
LegacyHlsPattern == HLS_PATTERN
LegacyDswxPattern == PRODUCTS["DSWX_HLS"].PATTERN

\* _format_facet_date(datetime.strptime(BeginningDateTime, CMR_TIME_FMT))
FacetDate(str) ==
    CASE str = "2025-09-30T18:38:21.000000Z" -> "2025-09-30 / 2025-273"
      [] str = "2025-10-01T00:04:07.134000Z" -> "2025-10-01 / 2025-274"
      [] str = "2025-10-01T00:04:07.135000Z" -> "2025-10-01 / 2025-274"
      [] str = "2025-10-01T18:38:21.000000Z" -> "2025-10-01 / 2025-274"

\* The lambdas given to query_cmr: a record of the catalog becomes a tuple.
DswxTuple(i) == <<i.GranuleUR, FacetDate(i.BeginningDateTime), i.InputGranules>>
HlsSTuple(i) == <<i.GranuleUR, FacetDate(i.BeginningDateTime)>>
HlsLTuple(i) == <<i.GranuleUR, FacetDate(i.BeginningDateTime), i.Platforms>>

DswxTuples(records) == [k \in 1..Len(records) |-> DswxTuple(records[k])]
HlsSTuples(records) == [k \in 1..Len(records) |-> HlsSTuple(records[k])]
HlsLTuples(records) == [k \in 1..Len(records) |-> HlsLTuple(records[k])]

\* filtered_inputs of one DSWx tuple: the (stripped, date) pairs of the
\* inputs whose stripped base name matches HLS_PATTERN
LegacyFilteredInputs(date, inputs) ==
    {<<StripSuffix(basename(inputs[k])), date>> :
        k \in {n \in 1..Len(inputs) :
                  PatternMatch(LegacyHlsPattern,
                               StripSuffix(basename(inputs[n]))) # NoMatch}}

\* for i in filtered_inputs: hls_to_dswx.setdefault(i, []).append(granule)
RECURSIVE SetDefaultAppend(_, _, _)
SetDefaultAppend(dict, keys, granule) ==
    IF keys = {} THEN dict
    ELSE LET i == CHOOSE x \in keys : TRUE
         IN  SetDefaultAppend(DictAppend(dict, i, granule), keys \ {i}, granule)

\* The loop over dswx_granules, on st = [raised, hls_to_dswx]: a granule
\* without an HLS input raises ValueError.
RECURSIVE LegacyMapOutputs(_, _)
LegacyMapOutputs(st, tuples) ==
    IF tuples = <<>> \/ st.raised THEN st
    ELSE LET granule == Head(tuples)[1]
             filtered_inputs == LegacyFilteredInputs(Head(tuples)[2],
                                                     Head(tuples)[3])
         IN  IF filtered_inputs = {}
             THEN [st EXCEPT !.raised = TRUE]
             ELSE LegacyMapOutputs(
                      [st EXCEPT !.hls_to_dswx =
                           SetDefaultAppend(@, filtered_inputs, granule)],
                      Tail(tuples))

\* if 'LANDSAT-9' not in g[2]
KeepsHlsL(platforms) == "LANDSAT-9" \notin Range(platforms)

\* hls_l_granules = [(g[0], g[1]) for g in hls_l_granules if ...]
LegacyFilterHlsL(tuples) ==
    LET kept == SelectSeq(tuples, LAMBDA g : KeepsHlsL(g[3]))
    IN  [k \in 1..Len(kept) |-> <<kept[k][1], kept[k][2]>>]

\* for hls_granule, date in hls_s_granules + hls_l_granules: an unmapped
\* pair gets the empty list
RECURSIVE LegacyAddInputs(_, _)
LegacyAddInputs(dict, tuples) ==
    IF tuples = <<>> THEN dict
    ELSE LET key == <<Head(tuples)[1], Head(tuples)[2]>>
         IN  LegacyAddInputs(IF key \notin DOMAIN dict
                             THEN DictSet(dict, key, <<>>) ELSE dict,
                             Tail(tuples))

\* product_list.sort(key=creation_ts, reverse=True): a stable sort, so x goes
\* behind every element whose key is not smaller than its own
RECURSIVE InsertDescending(_, _)
InsertDescending(product_list, x) ==
    IF product_list = <<>> THEN <<x>>
    ELSE IF StrGreater(
                PatternMatch(LegacyDswxPattern, x).creation_ts,
                PatternMatch(LegacyDswxPattern, Head(product_list)).creation_ts)
         THEN <<x>> \o product_list
         ELSE <<Head(product_list)>> \o InsertDescending(Tail(product_list), x)

RECURSIVE SortedDescending(_)
SortedDescending(product_list) ==
    IF product_list = <<>> THEN <<>>
    ELSE InsertDescending(
             SortedDescending(SubSeq(product_list, 1, Len(product_list) - 1)),
             product_list[Len(product_list)])

\* sum([len(v) for v in ...values()]) over the entries of a set of keys
RECURSIVE SumLens(_, _)
SumLens(dict, keys) ==
    IF keys = {} THEN 0
    ELSE LET k == CHOOSE x \in keys : TRUE
         IN  Len(dict[k]) + SumLens(dict, keys \ {k})

\* date_counts[date] of the pairs of one date
LegacyDateCounts(dict, date) ==
    LET keys == {k \in DOMAIN dict : k[2] = date}
    IN  [hls_granules |-> Cardinality({k[1] : k \in keys}),
         matched_dswx_hls_granules |-> SumLens(dict, keys),
         hls_to_many_dswx |-> Cardinality({k \in keys : Len(dict[k]) > 1}),
         hls_to_no_dswx |-> Cardinality({k \in keys : Len(dict[k]) = 0})]

RECURSIVE SumField(_, _, _)
SumField(counts, dates, field) ==
    IF dates = {} THEN 0
    ELSE LET d == CHOOSE x \in dates : TRUE
         IN  counts[d][field] + SumField(counts, dates \ {d}, field)

\* hls_mappings[hls_granule] = hls_to_dswx[(hls_granule, date)]: a granule
\* name has one date in the catalog, so a name stands for one pair
LegacyMappings(dict) ==
    [h \in {k[1] : k \in DOMAIN dict} |->
        dict[CHOOSE k \in DOMAIN dict : k[1] = h]]

\* The report main assembles from hls_to_dswx: the counts, the HLS granules
\* without an output, and the outputs that are not the newest of their
\* input (product_list[1:] after the descending sort), as a set.
LegacyReport(dict) ==
    LET dates == {k[2] : k \in DOMAIN dict}
        date_counts == [d \in dates |-> LegacyDateCounts(dict, d)]
        hls_mappings == LegacyMappings(dict)
        fields == {"hls_granules", "matched_dswx_hls_granules",
                   "hls_to_many_dswx", "hls_to_no_dswx"}
    IN  [overall_counts |-> [f \in fields |-> SumField(date_counts, dates, f)],
         counts_by_date |-> date_counts,
         hls_missing_dswx |-> {h \in DOMAIN hls_mappings :
                                   Len(hls_mappings[h]) = 0},
         dswx_duplicates |->
             UNION {Range(Tail(SortedDescending(hls_mappings[h]))) :
                        h \in {x \in DOMAIN hls_mappings :
                                   Len(hls_mappings[x]) > 0}}]

\* Records of the three collections the script queries.
LegacyDswxRecord(granule_ur, beginning, input_granules) ==
    [GranuleUR |-> granule_ur, BeginningDateTime |-> beginning,
     InputGranules |-> input_granules]

HlsL9After == <<"HLS", "L30", "T11SKA", "2026001T183821", "v2.0">>
HlsL9At == <<"HLS", "L30", "T11SKA", "2025274T183821", "v2.0">>

LegacyOutputs ==
    { LegacyDswxRecord(DswxId("T10TEM", "20260115T180931Z", "20260115T235959Z",
                              "S2A", "v1.0"),
                       "2025-10-01T18:38:21.000000Z",
                       << HlsS \o <<".B02", ".tif">>,
                          <<"s3://bucket", "/">> \o HlsS \o <<".B03", ".tif">> >>),
      LegacyDswxRecord(DswxId("T10TEM", "20260115T180931Z", "20260115T235959Z",
                              "L8", "v1.0"),
                       "2025-10-01T18:38:21.000000Z",
                       << HlsL \o <<".B02", ".tif">>, <<"worldcover_0", ".tif">> >>),
      LegacyDswxRecord(DswxId("T10TEM", "20260115T180931Z", "20260116T003045Z",
                              "L8", "v1.0"),
                       "2025-10-01T18:38:21.000000Z",
                       << HlsL \o <<".Fmask", ".tif">> >>),
      LegacyDswxRecord(DswxId("T11SKA", "20260115T180931Z", "20260115T235959Z",
                              "L9", "v1.0"),
                       "2025-10-01T18:38:21.000000Z",
                       << HlsL9After \o <<".B02", ".tif">> >>),
      LegacyDswxRecord(DswxId("T11SKA", "20260115T183045Z", "20260115T235959Z",
                              "L8", "v1.0"),
                       "2025-10-01T18:38:21.000000Z",
                       << <<"worldcover_0", ".tif">> >>) }

LegacyHlsS == {HlsRecord(HlsS, "2025-10-01T18:38:21.000000Z", <<"SENTINEL-2A">>)}

LegacyHlsL ==
    { HlsRecord(HlsL, "2025-10-01T18:38:21.000000Z", <<"LANDSAT-8">>),
      HlsRecord(HlsL9After, "2025-10-01T18:38:21.000000Z", <<"LANDSAT-9">>),
      HlsRecord(HlsL9At, "2025-10-01T00:04:07.135000Z", <<"LANDSAT-9">>),
      HlsRecord(HlsL9, "2025-09-30T18:38:21.000000Z", <<"LANDSAT-9">>) }

NoReport == [none |-> TRUE]

IdleMap ==
    /\ lm_pc = "idle"
    /\ lm_dswx = <<>>
    /\ lm_hls_s = <<>>
    /\ lm_hls_l = <<>>
    /\ lm_hls_to_dswx = EmptyDict
    /\ lm_report = NoReport

\* main, over what the three catalog queries return for the time range.
InitMap ==
    /\ lm_pc = "dswx"
    /\ lm_dswx \in SeqsUpTo(LegacyOutputs, MaxOutputs)
    /\ lm_hls_s \in SeqsUpTo(LegacyHlsS, MaxInputs)
    /\ lm_hls_l \in SeqsUpTo(LegacyHlsL, MaxInputs)
    /\ lm_hls_to_dswx = EmptyDict
    /\ lm_report = NoReport

\* The DSWx query and the loop that maps each output to its HLS inputs.
MapDswx ==
    /\ lm_pc = "dswx"
    /\ LET st == LegacyMapOutputs([raised |-> FALSE, hls_to_dswx |-> EmptyDict],
                                  DswxTuples(lm_dswx))
       IN  /\ lm_pc' = IF st.raised THEN "raised" ELSE "hls"
           /\ lm_hls_to_dswx' = st.hls_to_dswx
    /\ UNCHANGED <<lm_dswx, lm_hls_s, lm_hls_l, lm_report>>

\* The two HLS queries, the LANDSAT-9 filter and the loop that gives every
\* unmapped HLS granule an empty list.
MapHls ==
    /\ lm_pc = "hls"
    /\ lm_hls_to_dswx' =
           LegacyAddInputs(lm_hls_to_dswx,
                           HlsSTuples(lm_hls_s)
                               \o LegacyFilterHlsL(HlsLTuples(lm_hls_l)))
    /\ lm_pc' = "report"
    /\ UNCHANGED <<lm_dswx, lm_hls_s, lm_hls_l, lm_report>>

\* The grouping by date, the counts and the report.
MapReport ==
    /\ lm_pc = "report"
    /\ lm_report' = LegacyReport(lm_hls_to_dswx)
    /\ lm_pc' = "done"
    /\ UNCHANGED <<lm_dswx, lm_hls_s, lm_hls_l, lm_hls_to_dswx>>

NextMap ==
    \/ MapDswx /\ UNCHANGED <<dd_vars, aa_vars, qc_vars, rq_vars, cli_vars, au_vars, dc_vars, cr_vars, fg_vars>>
    \/ MapHls /\ UNCHANGED <<dd_vars, aa_vars, qc_vars, rq_vars, cli_vars, au_vars, dc_vars, cr_vars, fg_vars>>
    \/ MapReport /\ UNCHANGED <<dd_vars, aa_vars, qc_vars, rq_vars, cli_vars, au_vars, dc_vars, cr_vars, fg_vars>>

(***************************************************************************)
(* duplicate_check.py: the duplicate report that preceded opera-audit, for *)
(* the products that name a CREATE_TS_GROUP.                               *)
(***************************************************************************)
FrameTokens == {"F11115", "F11116"}                     \* F\d{5}
DispTimestampTokens ==
    {"20160705T140755Z", "20160729T140756Z", "20250408T163512Z",
     "20250422T090000Z", "20250512T101500Z", "20250620T080000Z"}
                                                        \* \d{8}T\d{6}Z

DISP_S1 ==
    [PATTERN |-> << [group |-> "", tokens |-> {"OPERA_L3_DISP-S1_IW"}],
                    [group |-> "frame_id", tokens |-> FrameTokens],
                    [group |-> "pol",
                     tokens |-> {"VV", "VH", "HH", "HV", "VV+VH", "HH+HV"}],
                    [group |-> "ref_datetime", tokens |-> DispTimestampTokens],
                    [group |-> "sec_datetime", tokens |-> DispTimestampTokens],
                    [group |-> "", tokens |-> VersionTokens],
                    [group |-> "creation_ts", tokens |-> DispTimestampTokens] >>,
     UNIQUE_GROUPS |-> <<"frame_id", "pol", "ref_datetime", "sec_datetime">>,
     AGG_TS_GROUP |-> "creation_ts",
     AGG_TS_FORMAT |-> "%Y%m%dT%H%M%SZ",
     CREATE_TS_GROUP |-> "creation_ts"]

\* PRODUCTS[args.product], for the products of the report model
ReportProducts == [DSWX_HLS |-> PRODUCTS["DSWX_HLS"], DISP_S1 |-> DISP_S1]

\* datetime.strptime(value, aggregation_ts_fmt).replace(day=1, ...)
\*     .strftime('%Y-%m')
AggMonth(value) ==
    CASE value \in {"20250408T163512Z", "20250422T090000Z"} -> "2025-04"
      [] value = "20250512T101500Z" -> "2025-05"
      [] value = "20250620T080000Z" -> "2025-06"
      [] value \in TimestampTokens -> "2026-01"

NewMonth == [n_granules |-> 0, n_duplicates |-> 0, duplicates |-> EmptyDict]

\* One iteration of `for granule_id in granule_ids`, on
\* st = [raised, granule_month_map, unique_granules]; an identifier the
\* pattern does not match raises RuntimeError.
ReportLoopBody(st, cfg, granule_id) ==
    LET group_dict == PatternMatch(cfg.PATTERN, granule_id)
    IN  IF group_dict = NoMatch THEN [st EXCEPT !.raised = TRUE]
        ELSE
        LET month == AggMonth(group_dict[cfg.AGG_TS_GROUP])
            old == IF month \in DOMAIN st.granule_month_map
                   THEN st.granule_month_map[month] ELSE NewMonth
            counted == [old EXCEPT !.n_granules = @ + 1]
            granule_unique_ids == UniqueId(group_dict, cfg.UNIQUE_GROUPS)
        IN  IF granule_unique_ids \in DOMAIN st.unique_granules
            THEN LET first_duplicate == st.unique_granules[granule_unique_ids]
                     listed == IF granule_unique_ids \in DOMAIN counted.duplicates
                               THEN counted.duplicates[granule_unique_ids]
                               ELSE <<first_duplicate>>
                 IN  [st EXCEPT !.granule_month_map =
                          DictSet(@, month,
                                  [counted EXCEPT
                                       !.n_duplicates = @ + 1,
                                       !.duplicates =
                                           DictSet(@, granule_unique_ids,
                                                   Append(listed, granule_id))])]
            ELSE [st EXCEPT
                      !.granule_month_map = DictSet(@, month, counted),
                      !.unique_granules = DictSet(@, granule_unique_ids,
                                                  granule_id)]

\* duplicate_granule_ids.sort(key=creation timestamp, reverse=True): a
\* stable sort, so x goes behind every element whose key is not smaller
RECURSIVE InsertNewestFirst(_, _, _)
InsertNewestFirst(cfg, duplicate_granule_ids, x) ==
    IF duplicate_granule_ids = <<>> THEN <<x>>
    ELSE IF StrGreater(
                PatternMatch(cfg.PATTERN, x)[cfg.CREATE_TS_GROUP],
                PatternMatch(cfg.PATTERN,
                             Head(duplicate_granule_ids))[cfg.CREATE_TS_GROUP])
         THEN <<x>> \o duplicate_granule_ids
         ELSE <<Head(duplicate_granule_ids)>>
                  \o InsertNewestFirst(cfg, Tail(duplicate_granule_ids), x)

RECURSIVE NewestFirst(_, _)
NewestFirst(cfg, duplicate_granule_ids) ==
    IF duplicate_granule_ids = <<>> THEN <<>>
    ELSE InsertNewestFirst(
             cfg,
             NewestFirst(cfg, SubSeq(duplicate_granule_ids, 1,
                                     Len(duplicate_granule_ids) - 1)),
             duplicate_granule_ids[Len(duplicate_granule_ids)])

\* granule_month_map[month]['duplicates'][duplicate] = {...}
LatestAndDuplicates(cfg, duplicate_granule_ids) ==
    LET sorted == NewestFirst(cfg, duplicate_granule_ids)
    IN  [latest_product |-> Head(sorted), duplicate_products |-> Tail(sorted)]

RECURSIVE SumDuplicates(_, _)
SumDuplicates(month_map, months) ==
    IF months = {} THEN 0
    ELSE LET m == CHOOSE x \in months : TRUE
         IN  month_map[m].n_duplicates + SumDuplicates(month_map, months \ {m})

\* final_report: the summary counts and the months in ascending order, each
\* with its duplicates turned into latest_product and duplicate_products.
FinalReport(cfg, granule_ids, month_map) ==
    LET months == SortedDates(DOMAIN month_map)
    IN  [n_granules |-> Len(granule_ids),
         n_duplicates |-> SumDuplicates(month_map, DOMAIN month_map),
         months |->
             [k \in 1..Len(months) |->
                 LET data == month_map[months[k]]
                 IN  <<months[k],
                       [n_granules |-> data.n_granules,
                        n_duplicates |-> data.n_duplicates,
                        duplicates |->
                            [key \in DOMAIN data.duplicates |->
                                LatestAndDuplicates(cfg, data.duplicates[key])]]>>]]

DispId(frame, creation) ==
    <<"OPERA_L3_DISP-S1_IW", frame, "VV", "20160705T140755Z",
      "20160729T140756Z", "v1.0", creation>>

\* Identifiers a query of the product's collection may return.
ReportSampleIds(prod) ==
    IF prod = "DISP_S1"
    THEN {DispId("F11115", "20250408T163512Z"),
          DispId("F11115", "20250422T090000Z"),
          DispId("F11115", "20250512T101500Z"),
          DispId("F11115", "20250620T080000Z"),
          DispId("F11116", "20250408T163512Z"),
          <<"OPERA_L3_DISP-S1-STATIC", "F11115">>}
    ELSE {DswxId("T10TEM", "20260115T180931Z", "20260115T235959Z", "L8", "v1.0"),
          DswxId("T10TEM", "20260115T180931Z", "20260116T003045Z", "L8", "v1.0"),
          DswxId("T10TEM", "20260115T180931Z", "20260116T120000Z", "L8", "v1.0"),
          DswxId("T11SKA", "20260115T180931Z", "20260115T235959Z", "L8", "v1.0"),
          <<"OPERA_L3_DSWx-S1", "T10TEM">>}

IdleDc ==
    /\ dc_pc = "idle"
    /\ dc_product = "DSWX_HLS"
    /\ dc_granule_ids = <<>>
    /\ dc_i = 0
    /\ granule_month_map = EmptyDict
    /\ dc_unique_granules = EmptyDict
    /\ final_report = NoReport

\* main(args) once get_granule_ids_from_cmr has returned: it raises unless
\* the first identifier matches the product's pattern.
InitDc ==
    /\ dc_pc = "loop"
    /\ dc_product \in DOMAIN ReportProducts
    /\ dc_granule_ids \in
           {ids \in SeqsUpTo(ReportSampleIds(dc_product), MaxGranules) :
               ids # <<>> =>
                   PatternMatch(ReportProducts[dc_product].PATTERN, ids[1])
                       # NoMatch}
    /\ dc_i = 0
    /\ granule_month_map = EmptyDict
    /\ dc_unique_granules = EmptyDict
    /\ final_report = NoReport

\* len(granule_ids) == 0: 'No data found!' and main returns without a report.
DcNoData ==
    /\ dc_pc = "loop"
    /\ dc_granule_ids = <<>>
    /\ dc_pc' = "no_data"
    /\ UNCHANGED <<dc_product, dc_granule_ids, dc_i, granule_month_map,
                   dc_unique_granules, final_report>>

\* One iteration of the loop over granule_ids.
DcLoopStep ==
    /\ dc_pc = "loop"
    /\ dc_i < Len(dc_granule_ids)
    /\ LET st == ReportLoopBody([raised |-> FALSE,
                                 granule_month_map |-> granule_month_map,
                                 unique_granules |-> dc_unique_granules],
                                ReportProducts[dc_product],
                                dc_granule_ids[dc_i + 1])
       IN  /\ dc_pc' = IF st.raised THEN "raised" ELSE "loop"
           /\ granule_month_map' = st.granule_month_map
           /\ dc_unique_granules' = st.unique_granules
    /\ dc_i' = dc_i + 1
    /\ UNCHANGED <<dc_product, dc_granule_ids, final_report>>

\* After the loop: the lists are sorted newest first and split, the months
\* are sorted and the report is written.
DcReport ==
    /\ dc_pc = "loop"
    /\ dc_granule_ids # <<>>
    /\ dc_i = Len(dc_granule_ids)
    /\ final_report' = FinalReport(ReportProducts[dc_product], dc_granule_ids,
                                   granule_month_map)
    /\ dc_pc' = "done"
    /\ UNCHANGED <<dc_product, dc_granule_ids, dc_i, granule_month_map,
                   dc_unique_granules>>

NextDc ==
    \/ DcNoData /\ UNCHANGED <<dd_vars, aa_vars, qc_vars, rq_vars, cli_vars, au_vars, lm_vars, cr_vars, fg_vars>>
    \/ DcLoopStep /\ UNCHANGED <<dd_vars, aa_vars, qc_vars, rq_vars, cli_vars, au_vars, lm_vars, cr_vars, fg_vars>>
    \/ DcReport /\ UNCHANGED <<dd_vars, aa_vars, qc_vars, rq_vars, cli_vars, au_vars, lm_vars, cr_vars, fg_vars>>

(***************************************************************************)
(* duplicate_and_accountability_cron.main: successive runs against one S3  *)
(* location, and the plot_data.json timeseries they keep there.  A date is *)
(* the number of the day the local clock shows.                            *)
(***************************************************************************)
IdleCron ==
    /\ cr_pc = "idle"
    /\ plot_length = 10
    /\ cr_clock = 1
    /\ cr_runs = 0
    /\ cr_s3 = <<>>
    /\ cr_last = [date |-> 0, run |-> 0]

\* The cron job is installed with some --duplicate-plot-length (_pos_int);
\* the S3 location holds no plot_data.json yet.
InitCron ==
    /\ cr_pc = "ready"
    /\ plot_length \in 1..MaxPlotLength
    /\ cr_clock = 1
    /\ cr_runs = 0
    /\ cr_s3 = <<>>
    /\ cr_last = [date |-> 0, run |-> 0]

\* timeseries_plot_data.pop(i)
Pop(list, i) == SubSeq(list, 1, i) \o SubSeq(list, i + 2, Len(list))

\* for i in range(len(timeseries_plot_data) - 1): the iterations from i on,
\* `last` being the final value of the range computed before the loop; an
\* index beyond the shortened list raises IndexError.
RECURSIVE PopSameDate(_, _, _, _)
PopSameDate(list, i, last, report_date) ==
    IF i > last THEN [raised |-> FALSE, list |-> list]
    ELSE IF i >= Len(list) THEN [raised |-> TRUE, list |-> list]
    ELSE IF list[i + 1].date = report_date
         THEN PopSameDate(Pop(list, i), i + 1, last, report_date)
         ELSE PopSameDate(list, i + 1, last, report_date)

\* timeseries_plot_data[:args.plot_length]
KeepFirst(list, n) == SubSeq(list, 1, IF n < Len(list) THEN n ELSE Len(list))

\* timeseries_plot_data.sort(key=lambda x: x['date'])
SortByDate(list) == SortSeq(list, LAMBDA a, b : a.date < b.date)

\* What main leaves in plot_data.json: the existing records (none when the
\* object does not exist) and the new one, without the earlier records of
\* the report date, cut to plot_length and sorted by date.
Timeseries(existing, plot_data, length) ==
    LET all == existing \o <<plot_data>>
        popped == PopSameDate(all, 0, Len(all) - 2, plot_data.date)
    IN  [raised |-> popped.raised,
         list |-> SortByDate(KeepFirst(popped.list, length))]

\* A run of main that reaches the upload of plot_data.json, on the day the
\* clock shows when it starts.
CronRun ==
    /\ cr_pc = "ready"
    /\ cr_runs < MaxRuns
    /\ \E today \in cr_clock..MaxDays :
           LET plot_data == [date |-> today, run |-> cr_runs + 1]
               result == Timeseries(cr_s3, plot_data, plot_length)
           IN  /\ cr_clock' = today
               /\ IF result.raised
                  THEN UNCHANGED <<cr_s3, cr_last>>
                  ELSE /\ cr_s3' = result.list
                       /\ cr_last' = plot_data
    /\ cr_runs' = cr_runs + 1
    /\ UNCHANGED <<cr_pc, plot_length>>

\* A run that ends before the upload: a script exits with a failure
\* (exit(1)) or a request raises.
CronAbort ==
    /\ cr_pc = "ready"
    /\ cr_runs < MaxRuns
    /\ \E today \in cr_clock..MaxDays : cr_clock' = today
    /\ cr_runs' = cr_runs + 1
    /\ UNCHANGED <<cr_pc, plot_length, cr_s3, cr_last>>

NextCron ==
    \/ CronRun /\ UNCHANGED <<dd_vars, aa_vars, qc_vars, rq_vars, cli_vars, au_vars, lm_vars, dc_vars, fg_vars>>
    \/ CronAbort /\ UNCHANGED <<dd_vars, aa_vars, qc_vars, rq_vars, cli_vars, au_vars, lm_vars, dc_vars, fg_vars>>

(***************************************************************************)
(* find_granules.py: find_missing_granules over the lines of a granule     *)
(* list, then report_found_granules on what it returned.  Whether a        *)
(* granule is in S3 and in GRQ is what the two checks answer for it.       *)
(***************************************************************************)
IdleFind ==
    /\ fg_pc = "idle"
    /\ gran_list = <<>>
    /\ fg_i = 0
    /\ s3_missing_granule = <<>>
    /\ s3_found_granule = <<>>
    /\ grq_missing_granule = <<>>
    /\ grq_found_granule = <<>>
    /\ both_missing_granule = <<>>
    /\ both_found_granule = <<>>
    /\ fg_printed = <<>>

\* The lines of the input file, each with the answers check_granule_s3 and
\* check_granule_grq give for its granule.
ListedGranules == [granule : {HlsS, HlsL}, in_s3 : BOOLEAN, in_grq : BOOLEAN]

InitFind ==
    /\ fg_pc = "loop"
    /\ gran_list \in SeqsUpTo(ListedGranules, MaxListed)
    /\ fg_i = 0
    /\ s3_missing_granule = <<>>
    /\ s3_found_granule = <<>>
    /\ grq_missing_granule = <<>>
    /\ grq_found_granule = <<>>
    /\ both_missing_granule = <<>>
    /\ both_found_granule = <<>>
    /\ fg_printed = <<>>

\* The list the if/elif chain appends the granule to.
Placed(s3_found, grq_found) ==
    IF grq_found /\ s3_found THEN "both_found"
    ELSE IF ~grq_found /\ ~s3_found THEN "both_missing"
    ELSE IF s3_found THEN "s3_found"
    ELSE IF ~s3_found THEN "s3_missing"
    ELSE IF grq_found THEN "grq_found"
    ELSE "grq_missing"

AppendIf(list, cond, granule) == IF cond THEN Append(list, granule) ELSE list

\* One iteration of `for granule in gran_list`.
FindStep ==
    /\ fg_pc = "loop"
    /\ fg_i < Len(gran_list)
    /\ LET line == gran_list[fg_i + 1]
           to == Placed(line.in_s3, line.in_grq)
       IN  /\ s3_missing_granule' =
                  AppendIf(s3_missing_granule, to = "s3_missing", line.granule)
           /\ s3_found_granule' =
                  AppendIf(s3_found_granule, to = "s3_found", line.granule)
           /\ grq_missing_granule' =
                  AppendIf(grq_missing_granule, to = "grq_missing", line.granule)
           /\ grq_found_granule' =
                  AppendIf(grq_found_granule, to = "grq_found", line.granule)
           /\ both_missing_granule' =
                  AppendIf(both_missing_granule, to = "both_missing", line.granule)
           /\ both_found_granule' =
                  AppendIf(both_found_granule, to = "both_found", line.granule)
    /\ fg_i' = fg_i + 1
    /\ UNCHANGED <<fg_pc, gran_list, fg_printed>>

\* A section of the report: printed only for a non-empty list.
Section(heading, list) ==
    IF list # <<>> THEN <<[heading |-> heading, granules |-> list]>> ELSE <<>>

\* find_missing_granules returns and main calls report_found_granules.
FindReport ==
    /\ fg_pc = "loop"
    /\ fg_i = Len(gran_list)
    /\ fg_printed' =
           Section("Granules found in only s3", s3_found_granule)
           \o Section("Granules found in only grq", grq_found_granule)
           \o Section("Granules found in both s3 and grq", both_found_granule)
    /\ fg_pc' = "done"
    /\ UNCHANGED <<gran_list, fg_i, s3_missing_granule, s3_found_granule,
                   grq_missing_granule, grq_found_granule, both_missing_granule,
                   both_found_granule>>

NextFind ==
    \/ FindStep /\ UNCHANGED <<dd_vars, aa_vars, qc_vars, rq_vars, cli_vars, au_vars, lm_vars, dc_vars, cr_vars>>
    \/ FindReport /\ UNCHANGED <<dd_vars, aa_vars, qc_vars, rq_vars, cli_vars, au_vars, lm_vars, dc_vars, cr_vars>>

\* No ad hoc script is running.
IdleScripts == IdleAud /\ IdleMap /\ IdleDc /\ IdleCron /\ IdleFind

(***************************************************************************)
(* Specifications: one per function under analysis.                        *)
(***************************************************************************)

StartDup == InitDup /\ IdleAcc /\ IdleCmr /\ IdleReq /\ IdleCli /\ IdleScripts
StartAcc == IdleDup /\ InitAcc /\ IdleCmr /\ IdleReq /\ IdleCli /\ IdleScripts
StartCmr == IdleDup /\ IdleAcc /\ InitCmr /\ IdleReq /\ IdleCli /\ IdleScripts
StartReq == IdleDup /\ IdleAcc /\ IdleCmr /\ InitReq /\ IdleCli /\ IdleScripts
StartCli == InitCli /\ IdleAcc /\ IdleReq /\ IdleScripts
StartAud == IdleDup /\ IdleAcc /\ IdleCmr /\ IdleReq /\ IdleCli /\ InitAud /\ IdleMap /\ IdleDc /\ IdleCron /\ IdleFind
StartMap == IdleDup /\ IdleAcc /\ IdleCmr /\ IdleReq /\ IdleCli /\ IdleAud /\ InitMap /\ IdleDc /\ IdleCron /\ IdleFind
StartDc == IdleDup /\ IdleAcc /\ IdleCmr /\ IdleReq /\ IdleCli /\ IdleAud /\ IdleMap /\ InitDc /\ IdleCron /\ IdleFind
StartCron == IdleDup /\ IdleAcc /\ IdleCmr /\ IdleReq /\ IdleCli /\ IdleAud /\ IdleMap /\ IdleDc /\ InitCron /\ IdleFind
StartFind == IdleDup /\ IdleAcc /\ IdleCmr /\ IdleReq /\ IdleCli /\ IdleAud /\ IdleMap /\ IdleDc /\ IdleCron /\ InitFind

SpecDup == StartDup /\ [][NextDup]_vars
SpecAcc == StartAcc /\ [][NextAcc]_vars
SpecCmr == StartCmr /\ [][NextCmr]_vars
SpecReq == StartReq /\ [][NextReq]_vars
SpecCli == StartCli /\ [][NextCli]_vars
SpecAud == StartAud /\ [][NextAud]_vars
SpecMap == StartMap /\ [][NextMap]_vars
SpecDc == StartDc /\ [][NextDc]_vars
SpecCron == StartCron /\ [][NextCron]_vars
SpecFind == StartFind /\ [][NextFind]_vars

(***************************************************************************)
(* Properties of detect_duplicates (SpecDup).                              *)
(***************************************************************************)
Config == PRODUCTS[product]
Ids == GranuleIds(cmr_granules)
Fields(granule_id) == PatternMatch(Config.PATTERN, granule_id)
Matches(granule_id) == Fields(granule_id) # NoMatch
\* the positions of the input list the loop has consumed and matched
Matched == {k \in 1..dd_i : Matches(Ids[k])}
\* two matching identifiers agree on every field of the uniqueness key
SameGroup(a, b) ==
    \A k \in 1..Len(Config.UNIQUE_GROUPS) :
        Fields(a)[Config.UNIQUE_GROUPS[k]] = Fields(b)[Config.UNIQUE_GROUPS[k]]
Group(k) == {j \in Matched : SameGroup(Ids[j], Ids[k])}
CreationOf(granule_id) ==
    IF Config.CREATE_TS_GROUP = "" THEN ""
    ELSE Fields(granule_id)[Config.CREATE_TS_GROUP]
Count(list, x) == Cardinality({k \in DOMAIN list : list[k] = x})
Survivors == {unique_granules[u][1] : u \in DOMAIN unique_granules}
DupDone == dd_pc = "done"

\* C1 as stated: total == unique + len(duplicate_list) for every input list,
\* total counting the records whose identifier does not match the pattern.
C1_TotalIsUniquePlusDuplicates ==
    DupDone => dd_result.total = dd_result.unique + Len(dd_result.duplicate_list)

\* C1 (amended): total == unique + len(duplicate_list) + the number of input
\* records whose identifier does not match the product's pattern.
C1_TotalSplitsThreeWays ==
    DupDone =>
        dd_result.total = dd_result.unique + Len(dd_result.duplicate_list)
            + Cardinality({k \in 1..Len(Ids) : ~Matches(Ids[k])})

C1_Witness ==
    /\ DupDone
    /\ \E k \in 1..Len(Ids) : ~Matches(Ids[k])
    /\ Len(dd_result.duplicate_list) = 1
    /\ dd_result.unique = 1

\* C3: with a creation field, after any number of records of a group in any
\* order, the group's survivor carries the lexicographically greatest
\* creation timestamp of the group, and the duplicate list holds every other
\* record of the group: each identifier as often as the group has it, the
\* survivor's once less.
C3_SurvivorIsNewest ==
    (dd_pc \in {"loop", "done"} /\ Config.CREATE_TS_GROUP # "") =>
        \A k \in Matched :
            LET group == Group(k)
                u == CHOOSE u \in DOMAIN unique_granules :
                        \E j \in group : unique_granules[u][1] = Ids[j]
                survivor == unique_granules[u][1]
                created == Chars(CreationOf(survivor))
            IN  /\ \E u2 \in DOMAIN unique_granules :
                        \E j \in group : unique_granules[u2][1] = Ids[j]
                /\ \A j \in group :
                        ~LexLess(created, Chars(CreationOf(Ids[j])))
                /\ unique_granules[u][2] = CreationOf(survivor)
                /\ \A j \in group :
                        Count(all_duplicates, Ids[j]) =
                            Cardinality({i \in group : Ids[i] = Ids[j]})
                            - (IF Ids[j] = survivor THEN 1 ELSE 0)

C3_Witness ==
    /\ DupDone
    /\ Config.CREATE_TS_GROUP # ""
    /\ \E k \in Matched :
        /\ Cardinality(Group(k)) = 3
        /\ Ids[2] \in Survivors
        /\ {1, 2, 3} = Group(k)
        /\ Ids[1] # Ids[3]
        /\ Range(dd_result.duplicate_list) = {Ids[1], Ids[3]}

\* C4: a list of two matching identifiers that agree on every unique field
\* (and differ elsewhere: creation timestamp, version, trailing characters)
\* yields unique == 1 and exactly one of the two in duplicate_list; two that
\* differ in a unique field yield unique == 2 and no duplicate.
C4_GroupedByUniqueFields ==
    (DupDone /\ Len(Ids) = 2 /\ Matches(Ids[1]) /\ Matches(Ids[2])
             /\ Ids[1] # Ids[2]) =>
        IF SameGroup(Ids[1], Ids[2])
        THEN /\ dd_result.unique = 1
             /\ Len(dd_result.duplicate_list) = 1
             /\ dd_result.duplicate_list[1] \in {Ids[1], Ids[2]}
        ELSE /\ dd_result.unique = 2
             /\ dd_result.duplicate_list = <<>>

C4_Witness ==
    /\ DupDone /\ Len(Ids) = 2 /\ Matches(Ids[1]) /\ Matches(Ids[2])
    /\ Ids[1] # Ids[2]
    /\ SameGroup(Ids[1], Ids[2])
    /\ CreationOf(Ids[1]) # CreationOf(Ids[2])
    /\ dd_result.unique = 1
    /\ dd_result.duplicate_list = <<Ids[1]>>

\* the input list reordered by the permutation p of its positions
Permuted(p) == [k \in 1..Len(cmr_granules) |-> cmr_granules[p[k]]]
Orders ==
    {p \in [1..Len(cmr_granules) -> 1..Len(cmr_granules)] :
        \A a, b \in 1..Len(cmr_granules) : p[a] = p[b] => a = b}
SameDuplicateSetInEveryOrder ==
    \A p \in Orders :
        Range(DetectDuplicates(Permuted(p), product).duplicate_list)
            = Range(dd_result.duplicate_list)
\* the records of k's group that carry the group's greatest creation
\* timestamp (with no creation field: every record of the group)
Newest(k) ==
    LET group == Group(k)
        created == [j \in group |-> Chars(CreationOf(Ids[j]))]
    IN  {j \in group : \A i \in group : ~LexLess(created[j], created[i])}

\* C5 as stated: the set of identifiers in duplicate_list is the same for
\* every permutation of the input list, for every schema.
C5_DuplicateSetOrderIndependent ==
    DupDone => SameDuplicateSetInEveryOrder

\* C5 (amended): the set of identifiers in duplicate_list is the same for
\* every permutation of the input list whenever, in each group, the records
\* that carry the group's greatest creation timestamp (every record of the
\* group when the schema has no creation field) all have one identifier.
C5_OrderIndependentWithoutTies ==
    (DupDone /\ \A k \in Matched : \A i, j \in Newest(k) : Ids[i] = Ids[j])
        => SameDuplicateSetInEveryOrder

C5_Witness ==
    /\ DupDone
    /\ Config.CREATE_TS_GROUP # ""
    /\ \A k \in Matched : \A i, j \in Newest(k) : Ids[i] = Ids[j]
    /\ Len(Ids) = 3
    /\ Matched = {1, 2, 3}
    /\ Group(1) = {1, 2, 3}
    /\ CreationOf(Ids[1]) # CreationOf(Ids[2])
    /\ Ids[3] \in Survivors
    /\ Len(dd_result.duplicate_list) = 2

\* the earliest position of a non-empty set of positions
FirstOf(S) == CHOOSE j \in S : \A i \in S : j <= i
\* the dictionary key of the record at a matched position
KeyOf(k) == UniqueId(Fields(Ids[k]), Config.UNIQUE_GROUPS)
\* the groups the consumed records fall into
Groups == {Group(k) : k \in Matched}
Unmatched == {k \in 1..Len(Ids) : ~Matches(Ids[k])}
HasMatchingId(record) == Matches(record.GranuleUR)
\* the sum of the `total` counters of the returned by_date
RECURSIVE SumTotals(_)
SumTotals(buckets) ==
    IF buckets = <<>> THEN 0
    ELSE Head(buckets)[2].total + SumTotals(Tail(buckets))

\* C15: a record whose identifier does not match the pattern is counted in
\* total, is no survivor, is in no duplicate_list, opens no group and no
\* by_date bucket; unique, duplicates, duplicate_list and by_date are those
\* of the run on the list with the non-matching records removed.
C15_UnmatchedOnlyCountsInTotal ==
    DupDone =>
        /\ dd_result.total = Len(cmr_granules)
        /\ \A k \in Unmatched :
               /\ Ids[k] \notin Survivors
               /\ Ids[k] \notin Range(dd_result.duplicate_list)
        /\ dd_result.unique = Cardinality(Groups)
        /\ SumTotals(dd_result.by_date) = Cardinality(Matched)
        /\ LET rest == DetectDuplicates(SelectSeq(cmr_granules, HasMatchingId),
                                        product)
           IN  /\ rest.unique = dd_result.unique
               /\ rest.duplicates = dd_result.duplicates
               /\ rest.duplicate_list = dd_result.duplicate_list
               /\ rest.by_date = dd_result.by_date
               /\ rest.total = dd_result.total - Cardinality(Unmatched)

C15_Witness ==
    /\ DupDone
    /\ Len(Ids) = 3
    /\ Unmatched = {2}
    /\ Group(1) = {1, 3}
    /\ Len(dd_result.duplicate_list) = 1
    /\ dd_result.total = 3
    /\ dd_result.unique = 1

\* C16: the number of records whose identifier matched equals
\* unique + len(duplicate_list), and unique is the number of distinct group
\* keys among the matched records.
C16_MatchedIsUniquePlusDuplicates ==
    DupDone =>
        /\ Cardinality(Matched) =
               dd_result.unique + Len(dd_result.duplicate_list)
        /\ dd_result.unique = Cardinality(Groups)
        /\ dd_result.duplicates = Len(dd_result.duplicate_list)

C16_Witness ==
    /\ DupDone
    /\ Matched = {1, 2, 3}
    /\ Cardinality(Groups) = 2
    /\ dd_result.unique = 2
    /\ Len(dd_result.duplicate_list) = 1

RECURSIVE LaterOfGroup(_)
LaterOfGroup(n) ==
    IF n = 0 THEN <<>>
    ELSE LaterOfGroup(n - 1) \o
            (IF n \in Matched /\ n # FirstOf(Group(n)) THEN <<Ids[n]>> ELSE <<>>)

C24_AgreesWithReferenceAnalysis ==
    DupDone =>
        LET reference == AnalyzeDuplicatesFromCmr(cmr_granules, product)
        IN  /\ reference.duplicates = dd_result.duplicates
            /\ Range(reference.duplicate_list) = Range(dd_result.duplicate_list)

\* the pattern matches the whole identifier
FullyMatches(granule_id) ==
    Matches(granule_id) /\ Len(granule_id) = Len(Config.PATTERN)
HasFullyMatchingId(record) == FullyMatches(record.GranuleUR)

\* C19: an identifier that the pattern matches only as a prefix (a
\* well-formed identifier followed by more characters) is excluded from
\* grouping: it is no survivor and no duplicate, and unique and
\* duplicate_list are those of the records the pattern matches in full.
C19_OnlyWholeIdentifiersGrouped ==
    DupDone =>
        /\ \A k \in 1..Len(Ids) :
               ~FullyMatches(Ids[k]) =>
                   /\ Ids[k] \notin Survivors
                   /\ Ids[k] \notin Range(dd_result.duplicate_list)
        /\ LET whole == DetectDuplicates(
                            SelectSeq(cmr_granules, HasFullyMatchingId), product)
           IN  /\ whole.unique = dd_result.unique
               /\ whole.duplicate_list = dd_result.duplicate_list

(***************************************************************************)
(* Properties of analyze_accountability (SpecAcc).                         *)
(***************************************************************************)
AccDone == aa_pc = "done"
\* the input records the exclusion rule removes: tagged LANDSAT-9 and
\* beginning strictly before the cutoff
Excluded(k) ==
    /\ \E n \in DOMAIN hls_granules[k].Platforms :
            hls_granules[k].Platforms[n] = "LANDSAT-9"
    /\ ParseInstant(hls_granules[k].BeginningDateTime)
            < ParseInstant("2025-10-01T00:04:07.135000Z")
Included == {k \in 1..Len(hls_granules) : ~Excluded(k)}
IncludedIds == {hls_granules[k].GranuleUR : k \in Included}
\* ref names the input x: optional leading path components, then x, then
\* nothing or a band suffix (.Bxx.tif, .Fmask.tif)
RefersTo(ref, x) ==
    \E a \in 0..Len(ref) - Len(x) :
        /\ SubSeq(ref, a + 1, a + Len(x)) = x
        /\ a > 0 => ref[a] = "/"
        /\ \A n \in a + 1..Len(ref) : ref[n] # "/"
        /\ \/ Len(ref) = a + Len(x)
           \/ /\ Len(ref) = a + Len(x) + 2
              /\ ref[Len(ref) - 1] \in {".B02", ".B03", ".Fmask"}
              /\ ref[Len(ref)] = ".tif"
Referenced(x) ==
    \E k \in 1..Len(dswx_granules) :
        \E n \in 1..Len(dswx_granules[k].InputGranules) :
            RefersTo(dswx_granules[k].InputGranules[n], x)

\* C2: expected == actual + missing_count, missing_count == len(missing) and
\* 0 <= actual <= expected.
C2_ExpectedIsActualPlusMissing ==
    AccDone =>
        /\ aa_result.expected = aa_result.actual + aa_result.missing_count
        /\ aa_result.missing_count = Len(aa_result.missing)
        /\ 0 <= aa_result.actual
        /\ aa_result.actual <= aa_result.expected

C2_Witness ==
    /\ AccDone
    /\ aa_result.missing_count = 1
    /\ aa_result.actual = 1
    /\ \E x \in DOMAIN hls_to_dswx : x \notin IncludedIds

\* C6: band/suffix variants of one input X (X.B02.tif, X.B03.tif,
\* X.Fmask.tif, with or without a leading path) all land on the one key X:
\* each referencing output is listed under X, no key keeps a band suffix or
\* a path, X is not missing, and expected counts the input records only.
C6_BandFilesCollapse ==
    AccDone =>
        /\ \A k \in 1..Len(dswx_granules) :
             \A n \in 1..Len(dswx_granules[k].InputGranules) :
               \A x \in {HlsS, HlsL, HlsL9} :
                 RefersTo(dswx_granules[k].InputGranules[n], x) =>
                    /\ x \in DOMAIN hls_to_dswx
                    /\ dswx_granules[k].GranuleUR \in Range(hls_to_dswx[x])
                    /\ x \notin Range(aa_result.missing)
        /\ \A key \in DOMAIN hls_to_dswx :
             /\ "/" \notin Range(key)
             /\ ~(/\ Len(key) >= 2
                  /\ key[Len(key)] = ".tif"
                  /\ key[Len(key) - 1] \in {".B02", ".B03", ".Fmask"})
        /\ aa_result.expected = Cardinality(Included)

C6_Witness ==
    /\ AccDone
    /\ \E k \in 1..Len(dswx_granules) :
         /\ Len(dswx_granules[k].InputGranules) = 3
         /\ RefersTo(dswx_granules[k].InputGranules[1], HlsS)
         /\ RefersTo(dswx_granules[k].InputGranules[2], HlsS)
         /\ RefersTo(dswx_granules[k].InputGranules[3], HlsS)
         /\ dswx_granules[k].InputGranules[1] # dswx_granules[k].InputGranules[2]
         /\ HlsS \in DOMAIN hls_to_dswx
         /\ Len(hls_to_dswx[HlsS]) = 3
    /\ HlsS \in IncludedIds
    /\ aa_result.expected = 1
    /\ aa_result.actual = 1

\* C7: an input record is left out of expected, actual and missing exactly
\* when its platforms contain LANDSAT-9 and its BeginningDateTime is
\* strictly before the cutoff: the kept identifiers are those of the other
\* records, in order; expected counts them; missing lists only identifiers
\* of kept records, and every kept record without a referencing output.
C7_CutoffExclusion ==
    AccDone =>
        /\ filtered_hls = [n \in 1..Cardinality(Included) |->
               hls_granules[CHOOSE k \in Included :
                   Cardinality({j \in Included : j < k}) = n - 1].GranuleUR]
        /\ aa_result.expected = Cardinality(Included)
        /\ Range(aa_result.missing) \subseteq IncludedIds
        /\ \A k \in Included :
               Referenced(hls_granules[k].GranuleUR)
                   \/ hls_granules[k].GranuleUR \in Range(aa_result.missing)
        /\ aa_result.actual = Cardinality(Included) - Len(aa_result.missing)

C7_Witness ==
    /\ AccDone
    /\ Len(hls_granules) = 2
    /\ hls_granules[1].Platforms = <<"LANDSAT-9">>
    /\ hls_granules[1].BeginningDateTime = "2025-10-01T00:04:07.134000Z"
    /\ hls_granules[2].Platforms = <<"LANDSAT-9">>
    /\ hls_granules[2].BeginningDateTime = "2025-10-01T00:04:07.135000Z"
    /\ aa_result.expected = 1
    /\ aa_result.missing = <<HlsL>>

\* C8: missing is the sorted list, without repetition, of the identifiers of
\* the non-excluded input records that no output references after path and
\* band-suffix normalization.
C8_MissingIsUnreferencedInputs ==
    AccDone =>
        /\ Range(aa_result.missing) = {x \in IncludedIds : ~Referenced(x)}
        /\ \A a, b \in 1..Len(aa_result.missing) :
               a < b => IdLess(aa_result.missing[a], aa_result.missing[b])

C8_Witness ==
    /\ AccDone
    /\ aa_result.missing = <<HlsL>>
    /\ Referenced(HlsS)
    /\ HlsS \in IncludedIds
    /\ \E k \in 1..Len(dswx_granules) :
            <<"worldcover_0", ".tif">> \in Range(dswx_granules[k].InputGranules)

\* C9 as stated: expected is the number of distinct non-excluded input
\* identifiers and actual the number of those some output references, also
\* when an identifier occurs in more than one input record.
C9_ExpectedCountsDistinctIds ==
    AccDone =>
        /\ aa_result.expected = Cardinality(IncludedIds)
        /\ aa_result.actual = Cardinality({x \in IncludedIds : Referenced(x)})

\* the name the first loop derives from a reference
Normalized(ref) == StripSuffix(basename(ref))
\* a reference whose normalized name the input pattern does not match
IsAuxiliary(ref) == PatternMatch(HLS_PATTERN, Normalized(ref)) = NoMatch
IsInputRef(ref) == ~IsAuxiliary(ref)
WithoutAuxiliary(record) ==
    [record EXCEPT !.InputGranules = SelectSeq(@, IsInputRef)]
WithMoreAuxiliary(record) ==
    [record EXCEPT !.InputGranules =
        <<<<"static", "/", "GSHHS_f_L1", ".shp">>>> \o @
            \o <<<<"worldcover_0", ".tif">>>>]

\* C22: a reference whose normalized name is not an input identifier never
\* becomes a key of the mapping nor an entry of missing, and the result is
\* the same with every such reference removed and with more of them added
\* to every output record.
C22_AuxiliaryReferencesIgnored ==
    AccDone =>
        /\ \A k \in 1..Len(dswx_granules) :
               \A n \in 1..Len(dswx_granules[k].InputGranules) :
                   LET ref == dswx_granules[k].InputGranules[n]
                   IN  IsAuxiliary(ref) =>
                           /\ Normalized(ref) \notin DOMAIN hls_to_dswx
                           /\ Normalized(ref) \notin Range(aa_result.missing)
        /\ AnalyzeAccountability(
               [k \in 1..Len(dswx_granules) |-> WithoutAuxiliary(dswx_granules[k])],
               hls_granules) = aa_result
        /\ AnalyzeAccountability(
               [k \in 1..Len(dswx_granules) |-> WithMoreAuxiliary(dswx_granules[k])],
               hls_granules) = aa_result

C22_Witness ==
    /\ AccDone
    /\ Len(dswx_granules) = 1
    /\ Len(dswx_granules[1].InputGranules) = 3
    /\ IsAuxiliary(dswx_granules[1].InputGranules[2])
    /\ IsAuxiliary(dswx_granules[1].InputGranules[3])
    /\ ~IsAuxiliary(dswx_granules[1].InputGranules[1])
    /\ aa_result.expected = 1
    /\ aa_result.actual = 1
    /\ aa_result.missing = <<>>

\* an output record none of whose references normalizes to an input
\* identifier (an empty InputGranules list included)
NoParseableInput(record) ==
    \A n \in 1..Len(record.InputGranules) : IsAuxiliary(record.InputGranules[n])
\* the run names the output record: in a log message, in the mapping or in
\* the returned dict
Surfaced(granule_id) ==
    \/ \E n \in 1..Len(aa_log) : aa_log[n].granule_id = granule_id
    \/ \E key \in DOMAIN hls_to_dswx : granule_id \in Range(hls_to_dswx[key])
    \/ granule_id \in Range(aa_result.missing)

\* C23: an output record with no parseable input reference is surfaced by
\* the analysis: the run does not return normally without naming it.
C23_UnparseableOutputSurfaced ==
    AccDone =>
        \A k \in 1..Len(dswx_granules) :
            NoParseableInput(dswx_granules[k]) =>
                Surfaced(dswx_granules[k].GranuleUR)

(***************************************************************************)
(* Properties of query_cmr (SpecCmr).                                      *)
(***************************************************************************)
\* the requests that were answered with a page, in the order issued
RECURSIVE Answered(_)
Answered(log) ==
    IF log = <<>> THEN <<>>
    ELSE IF Head(log).ok THEN <<Head(log)>> \o Answered(Tail(log))
    ELSE Answered(Tail(log))
\* pages 1..n of the catalog, concatenated
RECURSIVE FirstPages(_)
FirstPages(n) ==
    IF n = 0 THEN <<>> ELSE FirstPages(n - 1) \o server_pages[n]

\* the items of the responses to the first n answered requests, in order
RECURSIVE Received(_, _)
Received(answered, n) ==
    IF n = 0 THEN <<>>
    ELSE Received(answered, n - 1)
            \o ServerResponse(server_pages, answered[n].token).items

\* C10: the first request carries no token, each later request carries the
\* token the previous response returned, requests go on exactly while the
\* last response carried a token, and the list holds the pages received, in
\* request order; when query_cmr returns, that is every page of the catalog,
\* each once and in the catalog's order.
C10_PagesConcatenatedInChainOrder ==
    LET answered == Answered(requests_sent)
        token_of(n) == ServerResponse(server_pages, answered[n].token).search_after
    IN  /\ \A n \in 1..Len(answered) :
               answered[n].token = IF n = 1 THEN <<>> ELSE token_of(n - 1)
        /\ \A n \in 1..Len(answered) - 1 : token_of(n) # <<>>
        /\ qc_pc \in {"first", "paginate", "done"} =>
               granules = Received(answered, Len(answered))
        /\ qc_pc = "first" => answered = <<>>
        /\ qc_pc = "paginate" =>
               answered # <<>> /\ token_of(Len(answered)) # <<>>
        /\ qc_pc = "done" =>
               /\ answered # <<>> /\ token_of(Len(answered)) = <<>>
               /\ granules = FirstPages(Len(server_pages))

C10_Witness ==
    /\ qc_pc = "done"
    /\ Len(server_pages) = 3
    /\ granules = <<"granule-a", "granule-b">>
    /\ server_pages[2] = <<>>
    /\ \E n \in 1..Len(requests_sent) : ~requests_sent[n].ok

\* the page request under way was answered with an error and is issued again
\* unchanged: same token header, nothing appended, no page skipped or repeated
RetryPending ==
    /\ qc_pc \in {"first", "paginate"}
    /\ tries >= 1
    /\ requests_sent # <<>>
    /\ ~requests_sent[Len(requests_sent)].ok
    /\ TokenToSend(qc_pc, search_after) = requests_sent[Len(requests_sent)].token
    /\ granules = Received(Answered(requests_sent), Len(Answered(requests_sent)))

\* the query was aborted by the error of the last GET, after n attempts of
\* that page request
AbortedBy(status) ==
    /\ qc_pc = "raised"
    /\ qc_error # NoError
    /\ qc_error.status = status
    /\ requests_sent # <<>>
    /\ ~requests_sent[Len(requests_sent)].ok

\* every failed attempt is followed, if by anything, by the same request
SameRequestAfterFailure ==
    \A n \in 1..Len(requests_sent) - 1 :
        ~requests_sent[n].ok => requests_sent[n + 1].token = requests_sent[n].token

\* C11 as stated: a GET answered with any 4xx status other than 429 aborts
\* the query at once, with no further attempt.
C11_No4xxRetriedExcept429 ==
    (last_status \in 400..499 /\ last_status # 429) =>
        AbortedBy(last_status) /\ qc_error.type = "HTTPError"

\* C11 amended: a GET answered with a 4xx status other than 401, 418 and
\* 429 aborts the query at once: the HTTP error is raised to the caller, no
\* further request is sent, and when it answered the first attempt of the
\* page request exactly one attempt was made.
C11_Fatal4xxNotRetried ==
    (last_status \in 400..499 /\ last_status \notin {401, 418, 429}) =>
        /\ AbortedBy(last_status)
        /\ qc_error.type = "HTTPError"
        /\ tries = 0 => qc_error.tries = 1

C11_Witness ==
    /\ last_status = 404
    /\ qc_pc = "raised"
    /\ qc_error.tries = 1
    /\ Len(requests_sent) = 2
    /\ granules # <<>>

\* C12 as stated: a GET answered with 429 or any 5xx status is issued again
\* unchanged, until it succeeds or the retry bound is exhausted.
C12_Any5xxRetriedSameRequest ==
    /\ SameRequestAfterFailure
    /\ (last_status = 429 \/ last_status \in 500..599) =>
           \/ RetryPending
           \/ AbortedBy(last_status) /\ qc_error.tries >= MaxTries

\* C12 amended: a GET answered with 429, 500, 502, 503 or 504 (and likewise
\* 401 or 418) is issued again unchanged, same token header, until an
\* attempt succeeds, an attempt ends in an error that is not retried, or the
\* retry bound is exhausted; no retry advances to or repeats another page.
C12_RetryableRetriedSameRequest ==
    /\ SameRequestAfterFailure
    /\ last_status \in {401, 418, 429, 500, 502, 503, 504} =>
           \/ RetryPending
           \/ AbortedBy(last_status) /\ qc_error.tries >= MaxTries

C12_Witness ==
    /\ qc_pc = "done"
    /\ Len(server_pages) = 2
    /\ Len(requests_sent) = 3
    /\ requests_sent[2].token = <<2>>
    /\ ~requests_sent[2].ok
    /\ requests_sent[3].token = <<2>>
    /\ requests_sent[3].ok

\* C13: a GET that fails without an HTTP response is retried like a
\* transient error and surfaces only when the retry bound is exhausted.
C13_NetworkFailureRetried ==
    last_status = NetworkError =>
        \/ RetryPending
        \/ AbortedBy(last_status) /\ qc_error.tries >= MaxTries

(***************************************************************************)
(* Properties of _request (SpecReq).                                       *)
(***************************************************************************)
\* an attempt that makes the loop go on: a 5xx response or an exception
Failed(outcome) == IsResponse(outcome) => outcome.status >= 500

\* the (2, 4, 8, 10, 10) of the docstring
DocumentedSleeps == <<2, 4, 8, 10, 10>>

\* at most `tries` GETs, every one before the last a failure, and one
\* documented sleep after each failed attempt
BoundedAttemptsAndSleeps ==
    /\ Len(rq_attempts) <= rq_tries
    /\ \A n \in 1..Len(rq_attempts) - 1 : Failed(rq_attempts[n])
    /\ LET failed == {n \in 1..Len(rq_attempts) : Failed(rq_attempts[n])}
       IN  /\ Len(rq_slept) = Cardinality(failed)
           /\ \A n \in failed : rq_slept[n] = DocumentedSleeps[n]

\* C14: _request makes at most `tries` GETs, returns the first response
\* below 500, sleeps 2, 4, 8, 10, 10 seconds after the failed attempts, and
\* when every attempt failed raises an error that carries the url and the
\* cause of the last failed attempt.
C14_RequestBoundedAndReportsLastCause ==
    /\ BoundedAttemptsAndSleeps
    /\ rq_pc = "returned" =>
           /\ rq_attempts # <<>>
           /\ rq_result.response = rq_attempts[Len(rq_attempts)]
           /\ rq_result.response.status < 500
    /\ rq_pc = "raised" =>
           /\ Len(rq_attempts) = rq_tries
           /\ \A n \in 1..Len(rq_attempts) : Failed(rq_attempts[n])
           /\ rq_result.error = "RuntimeError"
           /\ rq_result.url = rq_url
           /\ rq_tries > 0 => rq_result.last = rq_attempts[Len(rq_attempts)]

(***************************************************************************)
(* Properties of the duplicates command (SpecCli).                         *)
(***************************************************************************)
\* the catalog's first page holds records and none of their identifiers
\* matches the product's pattern
FirstPageAllUnmatched ==
    /\ IsRegistered(product)
    /\ server_pages[1] # <<>>
    /\ \A n \in 1..Len(server_pages[1]) :
           ~Matches(server_pages[1][n].GranuleUR)

\* C20: a run whose first catalog page holds only identifiers that fail to
\* match the product's pattern ends in an error: it never gets to return a
\* result from detect_duplicates nor to print the summary.
C20_FirstPageMismatchRaises ==
    FirstPageAllUnmatched =>
        /\ cli_pc # "summary"
        /\ dd_pc # "done"

\* the catalog's records, all pages
RECURSIVE AllRecords(_)
AllRecords(n) == IF n = 0 THEN <<>> ELSE AllRecords(n - 1) \o server_pages[n]

\* C21: for a product that is not registered, the duplicates command ends
\* with exit status 1 without having issued any catalog request or called
\* detect_duplicates, and detect_duplicates called with that product raises
\* (KeyError) instead of returning a result.
C21_UnknownProductIsFatal ==
    product \notin ProductNames =>
        /\ cli_pc \in {"start", "exit1"}
        /\ requests_sent = <<>>
        /\ granules = <<>>
        /\ dd_pc = "idle"
        /\ dd_result = NoResult
        /\ DetectDuplicates(AllRecords(Len(server_pages)), product) = KeyError

C21_Witness ==
    /\ product = "NOT_A_PRODUCT"
    /\ cli_pc = "exit1"
    /\ Len(AllRecords(Len(server_pages))) = 2


(***************************************************************************)
(* by_date of detect_duplicates (SpecDup).                                 *)
(***************************************************************************)
\* the sum of one counter over the buckets of the returned by_date
RECURSIVE SumCounter(_, _)
SumCounter(buckets, counter) ==
    IF buckets = <<>> THEN 0
    ELSE Head(buckets)[2][counter] + SumCounter(Tail(buckets), counter)

\* C27: in the returned dict every by_date bucket has
\* total == unique + duplicates; over all buckets, total sums to the number
\* of records whose identifier matched the pattern, unique to the top-level
\* unique and duplicates to len(duplicate_list); the by_date keys are in
\* ascending date order.
C27_ByDateBucketsAddUp ==
    DupDone =>
        LET buckets == dd_result.by_date
        IN  /\ \A k \in 1..Len(buckets) :
                   buckets[k][2].total =
                       buckets[k][2].unique + buckets[k][2].duplicates
            /\ SumCounter(buckets, "total") = Cardinality(Matched)
            /\ SumCounter(buckets, "unique") = dd_result.unique
            /\ SumCounter(buckets, "duplicates") = Len(dd_result.duplicate_list)
            /\ \A k \in 1..(Len(buckets) - 1) :
                   LexLess(Chars(buckets[k][1]), Chars(buckets[k + 1][1]))

C27_Witness ==
    /\ DupDone
    /\ Len(dd_result.by_date) = 2
    /\ dd_result.by_date[1][2] = [total |-> 2, unique |-> 1, duplicates |-> 1]
    /\ dd_result.by_date[2][2] = [total |-> 1, unique |-> 1, duplicates |-> 0]
    /\ Unmatched = {}

(***************************************************************************)
(* Properties of audit_dswx_inputs.main (SpecAud).                         *)
(***************************************************************************)
\* The input names the metadata of a scanned granule lists.
InputNamesOf(entry) ==
    IF FetchRaised(entry) \/ NoInputGranules(entry.umm) THEN {}
    ELSE Range(entry.umm.InputGranules)

\* Neither a track nor an acquisition time can be read from the name.
CannotBeParsed(g) == RtcTrack(g) = NoGroup \/ AcqTime(g) = NoGroup

TracksOf(entry) ==
    {RtcTrack(g) : g \in {x \in InputNamesOf(entry) : RtcTrack(x) # NoGroup}}

TimesOf(entry) ==
    {parse_time_utc(AcqTime(g)) :
         g \in {x \in InputNamesOf(entry) : AcqTime(x) # NoGroup}}

MixesTracks(entry) == Cardinality(TracksOf(entry)) > 1

ExceedsSpan(entry) ==
    \E t1, t2 \in TimesOf(entry) : t2 - t1 > 60 * max_time_span_minutes

MetadataUnusable(entry) ==
    \/ FetchRaised(entry)
    \/ NoInputGranules(entry.umm)
    \/ \E g \in InputNamesOf(entry) : CannotBeParsed(g)

FailuresOf(entry) ==
    {n \in 1..Len(failures) : failures[n].dswx_granule_ur = entry.title}

\* C25: every scanned granule whose inputs mix tracks, whose acquisition
\* span exceeds the threshold or whose metadata is missing or unparseable
\* (fetch failed, no InputGranules, an input name that cannot be parsed) has
\* a Failure record, and no scanned granule has more than one.
C25_EveryBadGranuleRecordedOnce ==
    /\ \A k \in 1..au_total :
           LET entry == au_entries[k]
           IN  /\ (MixesTracks(entry) \/ ExceedsSpan(entry)
                      \/ MetadataUnusable(entry))
                      => FailuresOf(entry) # {}
               /\ Cardinality(FailuresOf(entry)) <= 1
    /\ Len(failures) <= au_total

(***************************************************************************)
(* Properties of dswx-hls-input-map.main (SpecMap).                        *)
(***************************************************************************)
MapDone == lm_pc = "done"

Landsat9FromCutoff(rec) ==
    /\ "LANDSAT-9" \in Range(rec.Platforms)
    /\ ParseInstant(rec.BeginningDateTime) >= L9_CUTOFF

\* Some DSWx record lists a file of the HLS granule among its inputs.
LegacyReferenced(hls_id) ==
    \E k \in 1..Len(lm_dswx) :
        \E n \in 1..Len(lm_dswx[k].InputGranules) :
            StripSuffix(basename(lm_dswx[k].InputGranules[n])) = hls_id

\* C26: a LANDSAT-9 HLS-L granule acquired at or after the sensor cutoff
\* belongs to the expected set: when no DSWx output refers to it, it is
\* listed in hls_missing_dswx and counted in hls_to_no_dswx.
C26_Landsat9FromCutoffExpected ==
    MapDone =>
        \A k \in 1..Len(lm_hls_l) :
            LET rec == lm_hls_l[k]
                date == FacetDate(rec.BeginningDateTime)
            IN  (Landsat9FromCutoff(rec) /\ ~LegacyReferenced(rec.GranuleUR))
                    => /\ rec.GranuleUR \in lm_report.hls_missing_dswx
                       /\ date \in DOMAIN lm_report.counts_by_date
                       /\ lm_report.counts_by_date[date].hls_to_no_dswx >= 1
                       /\ lm_report.overall_counts.hls_to_no_dswx >= 1

(***************************************************************************)
(* Properties of the report of duplicate_check.main (SpecDc).              *)
(***************************************************************************)
DcDone == dc_pc = "done"

DcConfig == ReportProducts[dc_product]

DcFields(k) == PatternMatch(DcConfig.PATTERN, dc_granule_ids[k])

DcKey(k) == UniqueId(DcFields(k), DcConfig.UNIQUE_GROUPS)

DcCreation(k) == DcFields(k)[DcConfig.CREATE_TS_GROUP]

\* The retrieved granules (positions of the list) that share a unique key.
DcGroup(key) == {k \in 1..Len(dc_granule_ids) : DcKey(k) = key}

\* The entries the report holds for a key: the months that list it.
EntriesOf(key) ==
    {m \in 1..Len(final_report.months) :
        key \in DOMAIN final_report.months[m][2].duplicates}

Occurrences(list, x) == Cardinality({n \in 1..Len(list) : list[n] = x})

\* How often an identifier is listed among the duplicate_products of
\* months 1..m of the report.
RECURSIVE ListedUpTo(_, _)
ListedUpTo(granule_id, m) ==
    IF m = 0 THEN 0
    ELSE LET dups == final_report.months[m][2].duplicates
             keys == {key \in DOMAIN dups :
                         Occurrences(dups[key].duplicate_products, granule_id) > 0}
         IN  ListedUpTo(granule_id, m - 1)
             + (IF keys = {} THEN 0
                ELSE Occurrences(dups[CHOOSE key \in keys : TRUE].duplicate_products,
                                 granule_id))

Listed(granule_id) == ListedUpTo(granule_id, Len(final_report.months))

RECURSIVE SumListed(_)
SumListed(ids) ==
    IF ids = {} THEN 0
    ELSE LET x == CHOOSE y \in ids : TRUE
         IN  Listed(x) + SumListed(ids \ {x})

\* C28: for a product with CREATE_TS_GROUP, every unique key that has
\* duplicates has one latest_product in the report, a granule of the
\* greatest creation timestamp among all retrieved granules of the key, and
\* every other granule of the key is listed exactly once among the
\* duplicate_products of the whole report, so the listed duplicate_products
\* are n_duplicates in number; also when the aggregation field is not a
\* unique field (DISP_S1).
C28_LatestProductAndDuplicatesPerKey ==
    DcDone =>
        /\ \A k \in 1..Len(dc_granule_ids) :
               LET group == DcGroup(DcKey(k))
                   entries == EntriesOf(DcKey(k))
               IN  Cardinality(group) >= 2 =>
                       /\ entries # {}
                       /\ \E l \in group :
                              /\ \A j \in group :
                                     ~StrGreater(DcCreation(j), DcCreation(l))
                              /\ \A m \in entries :
                                     final_report.months[m][2]
                                         .duplicates[DcKey(k)].latest_product
                                         = dc_granule_ids[l]
                              /\ \A j \in group :
                                     Listed(dc_granule_ids[j]) =
                                         Occurrences(dc_granule_ids,
                                                     dc_granule_ids[j])
                                         - (IF dc_granule_ids[j] = dc_granule_ids[l]
                                            THEN 1 ELSE 0)
        /\ SumListed(Range(dc_granule_ids)) = final_report.n_duplicates

(***************************************************************************)
(* Properties of the plot_data.json timeseries (SpecCron).                 *)
(***************************************************************************)
\* C29: after any sequence of completed runs against one S3 location,
\* plot_data.json holds at most plot_length records, at most one record per
\* report date, and the record of the most recent completed run (a re-run
\* on a date replaces the date's earlier record).
C29_TimeseriesBoundedAndCurrent ==
    /\ Len(cr_s3) <= plot_length
    /\ \A i, j \in 1..Len(cr_s3) : cr_s3[i].date = cr_s3[j].date => i = j
    /\ cr_last.run > 0 => \E i \in 1..Len(cr_s3) : cr_s3[i] = cr_last

(***************************************************************************)
(* Properties of find_missing_granules (SpecFind).                         *)
(***************************************************************************)
FindDone == fg_pc = "done"

ResultLists ==
    [s3_missing |-> s3_missing_granule, s3_found |-> s3_found_granule,
     grq_missing |-> grq_missing_granule, grq_found |-> grq_found_granule,
     both_missing |-> both_missing_granule, both_found |-> both_found_granule]

\* The list the two existence checks assign a granule to.
ListFor(line) ==
    IF line.in_s3 /\ line.in_grq THEN "both_found"
    ELSE IF line.in_s3 THEN "s3_found"
    ELSE IF line.in_grq THEN "grq_found"
    ELSE "both_missing"

\* C30: every input granule is placed in exactly one result list, the one
\* the two existence checks assign it to: both_found, both_missing,
\* s3_found (only S3) or grq_found (only GRQ); a granule found only in GRQ
\* is printed under 'Granules found in only grq'.
C30_PlacedByTheTwoChecks ==
    FindDone =>
        /\ Len(s3_missing_granule) + Len(s3_found_granule)
               + Len(grq_missing_granule) + Len(grq_found_granule)
               + Len(both_missing_granule) + Len(both_found_granule)
               = Len(gran_list)
        /\ \A k \in 1..Len(gran_list) :
               LET line == gran_list[k]
               IN  /\ line.granule \in Range(ResultLists[ListFor(line)])
                   /\ (line.in_grq /\ ~line.in_s3) =>
                          \E n \in 1..Len(fg_printed) :
                              /\ fg_printed[n].heading = "Granules found in only grq"
                              /\ line.granule \in Range(fg_printed[n].granules)
====
